---- MODULE Spec2Model ----
(***************************************************************************)
(* Call-quality dashboard: the per-call analysis pipeline, the batch       *)
(* scheduler tasks and the Biztel sync, modelled from app/tasks/analysis.py *)
(* app/api/v1/calls.py, app/api/v1/settings.py and the alembic migration.   *)
(*                                                                         *)
(* The database is modelled as committed tables.  A session (one per task  *)
(* execution or request) keeps the objects it loaded; its writes reach the *)
(* tables at its commit.  Rows are never deleted by the modelled code, so  *)
(* a table is a sequence and a row's id is its index.                      *)
(***************************************************************************)
EXTENDS Integers, Sequences, FiniteSets, TLC

\* ------------------------------------------------------------------ bounds
MaxCalls == 1         \* CallRecords created by direct upload
MaxTasks == 2         \* process_single_call messages ever enqueued
MaxPredictions == 1   \* emotion predictions returned by one Hume job
MaxSyncs == 2         \* sync_biztel_data requests
MaxRecords == 2       \* call-history records the provider holds for the range
MaxHistory == 5       \* records of the range in one paginated fetch
MaxTime == 2          \* the range of a paginated fetch is the seconds 0..MaxTime
page_size == 2        \* records per request (the code's page_size is 10000)
MaxCallers == 2       \* coroutines that share one BiztelClient
MaxRequests == 2      \* _request calls one caller issues back to back
MaxResponseLen == 5   \* tokens of an LLM response
MaxRows == 3          \* call_records rows when a batch task starts
MaxPickups == 1       \* messages the batches of the daily sync send
MaxUpdates == 2       \* update_biztel_settings requests
MaxGetters == 2       \* coroutines that obtain a client from the factory
MaxBlobs == 2         \* blobs in the bucket
MaxNow == 2           \* the clock's last value
MaxCleanups == 2      \* runs of cleanup_expired_files

\* ------------------------------------------------------- program constants
max_retries == 3      \* @celery_app.task(bind=True, max_retries=3)
TicksPerSecond == 20  \* the event-loop clock is followed in ticks of 50 ms
rate_limit_delay == 2 \* BIZTEL_API_RATE_LIMIT_DELAY = 0.1 s, in ticks
stop_after_attempt == 3   \* @retry(stop=stop_after_attempt(3))
wait_multiplier == 1  \* wait_exponential(multiplier=1, min=1, max=10), seconds
wait_min == 1
wait_max == 10
max_wait_seconds == 300   \* _wait_for_job(max_wait_seconds=300)
poll_interval == 2        \* _wait_for_job(poll_interval=2.0), seconds
error_prefix_len == 500   \* response[:500] in the parse error
daily_batch_limit == 1000 \* process_pending_calls.delay(tenant, limit=1000)

NULL == "NULL"
NoPath == 0           \* audio_file_path IS NULL; a stored blob path is a number > 0
NoOperator == <<0, 0>>  \* operator_id IS NULL; an Operator id is <<sync run, n>>

\* AnalysisStatus (app/models/call_record.py)
PENDING == "pending"
PROCESSING == "processing"
COMPLETED == "completed"
FAILED == "failed"
AnalysisStatus == {PENDING, PROCESSING, COMPLETED, FAILED}

\* ------------------------------------------------------------ input domains
Tenants == {"tA", "tB"}
Transcripts == {"hello", "goodbye"}
Emotions == {"joy"}
Categories == {"billing"}
RequestIds == {"r1", "r2"}
AccountIds == {"op1"}
AccountNames == {"Sato"}

\* CallHistoryRecord (app/services/biztel.py), the fields the sync reads
CallHistoryRecords ==
    [request_id : RequestIds,
     account_id : AccountIds \cup {NULL},
     account_name : AccountNames \cup {NULL},
     has_recording : BOOLEAN]

\* operation_flows rows; the flow CRUD endpoints are outside the model, so
\* the table is fixed: one active flow per tenant.
OperationFlows ==
    { [id |-> "flowA", tenant_id |-> "tA", is_active |-> TRUE],
      [id |-> "flowB", tenant_id |-> "tB", is_active |-> TRUE] }

\* What the classification response may carry as "flow_id": null, the id of
\* any flow, a well-formed UUID of no flow, or text that is no UUID.
UnknownFlowId == "flowX"
MalformedFlowId == "not-a-uuid"
FlowIdResponses ==
    {NULL, UnknownFlowId, MalformedFlowId} \cup {f.id : f \in OperationFlows}

Min(a, b) == IF a < b THEN a ELSE b

RECURSIVE SeqsUpTo(_, _)
SeqsUpTo(S, n) ==
    IF n = 0 THEN { <<>> }
    ELSE LET shorter == SeqsUpTo(S, n - 1)
         IN  shorter \cup { Append(s, x) : s \in shorter, x \in S }

\* the ascending sequence of a finite set of naturals
RECURSIVE SortedSeq(_)
SortedSeq(S) ==
    IF S = {} THEN <<>>
    ELSE LET m == CHOOSE x \in S : \A y \in S : x <= y
         IN  <<m>> \o SortedSeq(S \ {m})

VARIABLES
    call_records,      \* table call_records (committed rows)
    analysis_results,  \* table analysis_results (committed rows)
    emotion_data,      \* table emotion_data (committed rows)
    operators,         \* table operators (committed rows)
    blobs,             \* number of audio blobs uploaded to the bucket
    tasks,             \* process_single_call messages and their executions
    provider,          \* the provider's call history for the synced range
    syncs,             \* sync_biztel_data requests and their sessions
    pager,             \* one call of BiztelClient.get_call_history_paginated
    client,            \* one BiztelClient, its callers and the loop clock
    hume_job,          \* one call of HumeService._wait_for_job
    llm,               \* one call of LLMService.full_analysis
    parser,            \* one call of LLMService._parse_json_response
    daily_sync,        \* one run of the daily_biztel_sync task
    http,              \* the last request to the reanalyze endpoint and its response
    factory,           \* BiztelClientFactory, the tenants' credentials and their users
    bucket,            \* the GCS bucket, the clock and the cleanup runs
    sentiment          \* one call of HumeService.calculate_sentiment_score

vars == <<call_records, analysis_results, emotion_data, operators, blobs,
          tasks, provider, syncs, pager, client, hume_job, llm,
          parser,
          daily_sync,
          http,
          factory,
          bucket,
          sentiment>>

pipeline_vars == <<analysis_results, emotion_data, tasks>>
sync_vars == <<operators, provider, syncs>>
store_vars == <<call_records, pipeline_vars, blobs, sync_vars>>
service_vars == <<pager, client, hume_job, llm, parser, daily_sync, http, factory, bucket, sentiment>>

\* a caller of the client that is not inside _request
IdleCaller ==
    [pc |-> "idle",
     attempt |-> 0,         \* tenacity's attempt_number of the call in progress
     remaining |-> 0,       \* ticks left of the asyncio.sleep in progress
     calls |-> 0,           \* _request calls issued so far
     response |-> 0,        \* status of the latest response (TIMEOUT: none came)
     result |-> NULL]       \* "returned", or the exception the call raised

\* BiztelClient.__init__ (lines 92-95), with no caller yet.  Time is kept
\* relative to the loop clock: the code only compares now - _last_request_time
\* with the delay, so the difference is followed up to the delay; the loop
\* clock (time.monotonic) is past the delay when the client is built.
NoClient ==
    [elapsed |-> rate_limit_delay,      \* now - _last_request_time
     since_sent |-> rate_limit_delay,   \* now - the time the last request went out
     callers |-> <<>>]

\* no call of _wait_for_job is in progress
NoJob == [pc |-> "idle", elapsed |-> 0, polls |-> 0, status |-> NULL, result |-> NULL]

\* calculate_sentiment_score is not in use
NoSentiment ==
    [pc |-> "idle", average_emotions |-> <<>>, outcome |-> NULL,
     num |-> 0, den |-> 1, divided |-> FALSE]

\* the bucket is not in use
NoBucket == [clock |-> 0, objects |-> <<>>, runs |-> <<>>]

\* the factory is not in use
NoFactory ==
    [tenant_rows |-> <<>>, clients |-> <<>>, created |-> 0, updates |-> <<>>,
     callers |-> <<>>]

\* no request has been made to the reanalyze endpoint
NoRequest == [call_id |-> 0, tenant_id |-> NULL, status_code |-> 0]

\* no daily_biztel_sync task is running
NoDailySync ==
    [pc |-> "idle", configured |-> <<>>, tenants |-> <<>>, records |-> <<>>,
     results |-> <<>>, fetched |-> <<>>, batches |-> <<>>]

\* no call of _parse_json_response is in progress
NoParse == [pc |-> "idle", response |-> <<>>, outcome |-> NULL, value |-> <<>>]

\* selected_flow is None
NoFlow == [id |-> NULL, flow_definition |-> NULL]

\* no call of full_analysis is in progress
NoAnalysisCall ==
    [pc |-> "idle", available_flows |-> {}, preselected_flow |-> NoFlow,
     selected_flow |-> NoFlow, flow_id |-> NULL, calls |-> <<>>,
     results |-> {}]

\* no call of get_call_history_paginated is in progress
NoPager ==
    [pc |-> "idle", data |-> <<>>, current_start |-> 0, all_records |-> <<>>]

CallIds == 1..Len(call_records)
TaskIds == 1..Len(tasks)

\* ---------------------------------------------------------------- sessions
\* The attributes of the loaded CallRecord the pipeline assigns.
CallObject(row) ==
    [analysis_status |-> row.analysis_status,
     operation_flow_id |-> row.operation_flow_id,
     inquiry_category |-> row.inquiry_category]

NoObject ==
    [analysis_status |-> NULL, operation_flow_id |-> NULL, inquiry_category |-> NULL]

NoResult == [state |-> "none", text |-> NULL, predictions |-> <<>>]
NoAnalysis == [kind |-> "none", id |-> 0]

\* A task message waiting in the broker: no execution state.
QueuedTask(call_id, retries) ==
    [call_record_id |-> call_id,
     retries |-> retries,
     pc |-> "queued",
     result |-> NULL,
     call |-> NoObject,       \* the session's CallRecord object
     loaded |-> NoObject,     \* its attribute values as last loaded or committed
     transcription_result |-> NoResult,
     emotion_result |-> NoResult,
     analysis |-> NoAnalysis,
     available_flows |-> {},  \* the flows the execution selected for the LLM
     flushed |-> FALSE,       \* an INSERT of a new AnalysisResult was flushed
     invalid |-> FALSE,       \* a flush failed: the session needs a rollback
     raised |-> NULL]         \* the step whose exception reached the handler

\* An exception reaches the handler: only the session's CallRecord is used
\* from there on.
Raise(t, why, flush_failed) ==
    [t EXCEPT
        !.pc = "except", !.raised = why, !.invalid = flush_failed,
        !.transcription_result = [NoResult EXCEPT !.state = t.transcription_result.state],
        !.emotion_result = [NoResult EXCEPT !.state = t.emotion_result.state],
        !.analysis = NoAnalysis]

\* An execution that has ended keeps only its outcome.
EndedTask(t, outcome, why) ==
    [QueuedTask(t.call_record_id, t.retries) EXCEPT
        !.pc = "done", !.result = outcome, !.raised = why,
        !.emotion_result = [NoResult EXCEPT !.state = t.emotion_result.state],
        !.transcription_result = [NoResult EXCEPT !.state = t.transcription_result.state]]

\* a faulty variant: the UPDATE carries every attribute of the object
CommitCall_AllAttributes(row, obj, loaded) ==
    [row EXCEPT
        !.analysis_status = obj.analysis_status,
        !.operation_flow_id = obj.operation_flow_id,
        !.inquiry_category = obj.inquiry_category]

\* commit of the session's CallRecord: an UPDATE carries exactly the
\* attributes whose value differs from the one loaded or last committed.
CommitCall(row, obj, loaded) ==
    [row EXCEPT
        !.analysis_status =
            IF obj.analysis_status # loaded.analysis_status
            THEN obj.analysis_status ELSE @,
        !.operation_flow_id =
            IF obj.operation_flow_id # loaded.operation_flow_id
            THEN obj.operation_flow_id ELSE @,
        !.inquiry_category =
            IF obj.inquiry_category # loaded.inquiry_category
            THEN obj.inquiry_category ELSE @]

\* ForeignKeyConstraint(["operation_flow_id"], ["operation_flows.id"])
ForeignKeyHolds(flow_id) ==
    flow_id = NULL \/ \E f \in OperationFlows : f.id = flow_id

\* a faulty variant: the table without its unique constraint
UniqueViolation_NoConstraint(call_id) == FALSE

\* UniqueConstraint("call_record_id") on analysis_results
UniqueViolation(call_id) ==
    \E i \in 1..Len(analysis_results) : analysis_results[i].call_record_id = call_id

\* an INSERT waits while another transaction holds an uncommitted row with
\* the same unique key
UniqueKeyHeld(t, call_id) ==
    \E u \in TaskIds :
        u # t /\ tasks[u].flushed /\ tasks[u].call_record_id = call_id

\* --------------------------------------------------------- provider results
TranscriptionOutcomes ==
    { [state |-> "exception", text |-> NULL, predictions |-> <<>>] } \cup
    { [state |-> "ok", text |-> x, predictions |-> <<>>] : x \in Transcripts }

EmotionOutcomes ==
    { [state |-> "exception", text |-> NULL, predictions |-> <<>>] } \cup
    { [state |-> "ok", text |-> NULL, predictions |-> p] :
        p \in SeqsUpTo(Emotions, MaxPredictions) }

\* a faulty variant: gather without return_exceptions, the first exception propagates
GatherRaises_AnyException(transcription, emotion) ==
    transcription.state = "exception" \/ emotion.state = "exception"

\* a faulty variant: the transcription result is used without the isinstance check
GatherRaises_Never(transcription, emotion) == FALSE

\* asyncio.gather(..., return_exceptions=True) followed by
\* "if isinstance(transcription_result, Exception): raise"
GatherRaises(transcription, emotion) == transcription.state = "exception"

\* the flows handed to full_analysis: the active flows of the call's tenant
AvailableFlows(tenant_id) ==
    { f \in OperationFlows : f.tenant_id = tenant_id /\ f.is_active }

\* uuid.UUID(flow_classification["flow_id"]) raises ValueError
FlowIdRaises(flow_id) == flow_id = MalformedFlowId

\* Task.retry gives up (re-raises exc) once request.retries + 1 > max_retries
RetryExhausted(retries) == retries + 1 > max_retries

\* "Save emotion data if available": the statement commented "Delete existing
\* emotion data" is a SELECT, so the new rows are added to the stored ones.
SaveEmotionData(rows, analysis_id, predictions) ==
    rows \o [i \in 1..Len(predictions) |->
                [analysis_id |-> analysis_id, emotion_type |-> predictions[i]]]

\* a faulty variant: a new AnalysisResult is never added to the session
UpsertAnalysisResult_NoInsert(rows, analysis, call_id, transcript) ==
    IF analysis.kind = "existing"
    THEN [rows EXCEPT ![analysis.id].transcript = transcript]
    ELSE rows

\* "Create or update analysis result"
UpsertAnalysisResult(rows, analysis, call_id, transcript) ==
    IF analysis.kind = "existing"
    THEN [rows EXCEPT ![analysis.id].transcript = transcript]
    ELSE Append(rows, [call_record_id |-> call_id, transcript |-> transcript])

AnalysisId(rows, analysis) ==
    IF analysis.kind = "existing" THEN analysis.id ELSE Len(rows) + 1

\* --------------------------------------------------------------------- Init
Init ==
    /\ sentiment = NoSentiment
    /\ bucket = NoBucket
    /\ factory = NoFactory
    /\ http = NoRequest
    /\ daily_sync = NoDailySync
    /\ parser = NoParse
    /\ call_records = <<>>
    /\ analysis_results = <<>>
    /\ emotion_data = <<>>
    /\ operators = <<>>
    /\ blobs = 0
    /\ tasks = <<>>
    /\ provider = <<>>
    /\ syncs = <<>>
    /\ pager = NoPager
    /\ client = NoClient
    /\ hume_job = NoJob
    /\ llm = NoAnalysisCall

\* ------------------------------------------------- calls.py: upload_audio
upload_audio(tenant) ==
    /\ Len(call_records) < MaxCalls
    /\ call_records' = Append(call_records,
          [tenant_id |-> tenant,
           request_id |-> NULL,
           operator_id |-> NoOperator,
           operation_flow_id |-> NULL,
           inquiry_category |-> NULL,
           audio_file_path |-> blobs + 1,
           analysis_status |-> PENDING])
    /\ blobs' = blobs + 1
    /\ UNCHANGED <<service_vars, pipeline_vars, sync_vars>>

\* ----------------------------------------------- calls.py: reanalyze_call
reanalyze_call(call_id, user_tenant) ==
    /\ call_id \in CallIds
    /\ call_records[call_id].tenant_id = user_tenant        \* else 404
    /\ call_records[call_id].audio_file_path # NoPath       \* else 400
    /\ call_records' = [call_records EXCEPT ![call_id].analysis_status = PENDING]
    /\ UNCHANGED <<service_vars, pipeline_vars, blobs, sync_vars>>

\* ------------------------------------------ analysis.py: batch scheduler
\* a faulty variant: the tenant filter is left out
Selectable_AnyTenant(status, tenant_id) ==
    { c \in CallIds :
        /\ call_records[c].analysis_status = status
        /\ call_records[c].audio_file_path # NoPath }

\* lines 239-247 and 382-390: the WHERE clauses of the batch queries
Selectable(status, tenant_id) ==
    { c \in CallIds :
        /\ call_records[c].analysis_status = status
        /\ call_records[c].audio_file_path # NoPath
        /\ (tenant_id = NULL \/ call_records[c].tenant_id = tenant_id) }

\* a faulty variant: the query has no LIMIT
LimitedSelections_Unlimited(matching, limit) == {matching}

\* query.limit(limit) without ORDER BY: any limit-many of the matching rows
LimitedSelections(matching, limit) ==
    { sel \in SUBSET matching :
        Cardinality(sel) = Min(limit, Cardinality(matching)) }

\* group(process_single_call.s(id) for each selected call).apply_async()
Enqueue(sel) ==
    LET ids == SortedSeq(sel)
    IN  tasks \o [i \in 1..Len(ids) |-> QueuedTask(ids[i], 0)]

process_pending_calls(tenant_id, limit) ==
    \E sel \in LimitedSelections(Selectable(PENDING, tenant_id), limit) :
        /\ sel # {}
        /\ Len(tasks) + Cardinality(sel) <= MaxTasks
        /\ tasks' = Enqueue(sel)
        /\ UNCHANGED <<service_vars, call_records, analysis_results, emotion_data, blobs, sync_vars>>

retry_failed_analyses(tenant_id, limit) ==
    \E sel \in LimitedSelections(Selectable(FAILED, tenant_id), limit) :
        /\ sel # {}
        /\ Len(tasks) + Cardinality(sel) <= MaxTasks
        /\ call_records' =
              [c \in CallIds |->
                  IF c \in sel
                  THEN [call_records[c] EXCEPT !.analysis_status = PENDING]
                  ELSE call_records[c]]
        /\ tasks' = Enqueue(sel)
        /\ UNCHANGED <<service_vars, analysis_results, emotion_data, blobs, sync_vars>>

\* ------------------------------- analysis.py: _process_single_call_async
\* lines 63-76: a worker takes the message, opens a session, loads the call
LoadCall(t) ==
    /\ tasks[t].pc = "queued"
    /\ LET id == tasks[t].call_record_id
       IN  IF id \notin CallIds
           THEN tasks' = [tasks EXCEPT ![t] = EndedTask(@, "not_found", NULL)]
           ELSE IF call_records[id].audio_file_path = NoPath
           THEN tasks' = [tasks EXCEPT ![t] = EndedTask(@, "no_audio", NULL)]
           ELSE tasks' = [tasks EXCEPT
                    ![t].pc = "set_processing",
                    ![t].call = CallObject(call_records[id]),
                    ![t].loaded = CallObject(call_records[id])]
    /\ UNCHANGED <<service_vars, call_records, analysis_results, emotion_data, blobs, sync_vars>>

\* lines 80-81
SetProcessing(t) ==
    /\ tasks[t].pc = "set_processing"
    /\ LET id == tasks[t].call_record_id
           obj == [tasks[t].call EXCEPT !.analysis_status = PROCESSING]
       IN  /\ call_records' =
                [call_records EXCEPT ![id] = CommitCall(@, obj, tasks[t].loaded)]
           /\ tasks' = [tasks EXCEPT
                ![t].pc = "download", ![t].call = obj, ![t].loaded = obj]
    /\ UNCHANGED <<service_vars, analysis_results, emotion_data, blobs, sync_vars>>

\* lines 84-85: storage.download_file returns the bytes or raises
DownloadAudio(t) ==
    /\ tasks[t].pc = "download"
    /\ \E ok \in BOOLEAN :
        tasks' = [tasks EXCEPT ![t] =
            IF ok THEN [@ EXCEPT !.pc = "gather"] ELSE Raise(@, "download", FALSE)]
    /\ UNCHANGED <<service_vars, call_records, analysis_results, emotion_data, blobs, sync_vars>>

\* lines 87-110: transcription and emotion analysis joined by gather
GatherResults(t) ==
    /\ tasks[t].pc = "gather"
    /\ \E transcription \in TranscriptionOutcomes, emotion \in EmotionOutcomes :
        LET got == [tasks[t] EXCEPT
                        !.transcription_result = transcription,
                        !.emotion_result = emotion]
        IN  tasks' = [tasks EXCEPT ![t] =
                IF GatherRaises(transcription, emotion)
                THEN Raise(got, "gather", FALSE)
                ELSE [got EXCEPT !.pc = "llm"]]
    /\ UNCHANGED <<service_vars, call_records, analysis_results, emotion_data, blobs, sync_vars>>

\* lines 112-143: flows of the tenant, full_analysis, classified flow and
\* inquiry category assigned to the CallRecord object
RunLLMAnalysis(t) ==
    /\ tasks[t].pc = "llm"
    /\ LET id == tasks[t].call_record_id
           flows == AvailableFlows(call_records[id].tenant_id)
       IN  \E ok \in BOOLEAN,
              flow_id \in (IF flows = {} THEN {NULL} ELSE FlowIdResponses),
              category \in Categories :
            tasks' = [tasks EXCEPT ![t] =
                IF ~ok
                THEN Raise([@ EXCEPT !.available_flows = flows], "llm", FALSE)
                ELSE IF flow_id # NULL /\ FlowIdRaises(flow_id)
                THEN Raise([@ EXCEPT !.available_flows = flows], "flow_id", FALSE)
                ELSE [@ EXCEPT
                        !.pc = "select_analysis",
                        !.available_flows = flows,
                        !.call.operation_flow_id =
                            IF flow_id # NULL THEN flow_id ELSE @,
                        !.call.inquiry_category = category]]
    /\ UNCHANGED <<service_vars, call_records, analysis_results, emotion_data, blobs, sync_vars>>

\* lines 146-163: the SELECT autoflushes the CallRecord (the foreign key is
\* checked), then finds the call's AnalysisResult, if any
SelectAnalysis(t) ==
    /\ tasks[t].pc = "select_analysis"
    /\ LET id == tasks[t].call_record_id
           fk_ok == \/ tasks[t].call.operation_flow_id = tasks[t].loaded.operation_flow_id
                    \/ ForeignKeyHolds(tasks[t].call.operation_flow_id)
           found == { i \in 1..Len(analysis_results) :
                        analysis_results[i].call_record_id = id }
       IN  tasks' = [tasks EXCEPT ![t] =
                IF ~fk_ok
                THEN Raise(@, "flush", TRUE)
                ELSE IF Cardinality(found) > 1      \* MultipleResultsFound
                THEN Raise(@, "select", FALSE)
                ELSE IF found # {}
                THEN [@ EXCEPT !.pc = "commit",
                        !.analysis = [kind |-> "existing", id |-> CHOOSE i \in found : TRUE]]
                ELSE [@ EXCEPT !.pc = "insert_analysis"]]
    /\ UNCHANGED <<service_vars, call_records, analysis_results, emotion_data, blobs, sync_vars>>

\* lines 164-176: db.add(analysis); await db.flush()
InsertAnalysis(t) ==
    /\ tasks[t].pc = "insert_analysis"
    /\ ~UniqueKeyHeld(t, tasks[t].call_record_id)
    /\ tasks' = [tasks EXCEPT ![t] =
            IF UniqueViolation(tasks[t].call_record_id)
            THEN Raise(@, "flush", TRUE)
            ELSE [@ EXCEPT !.pc = "commit", !.flushed = TRUE,
                    !.analysis = [kind |-> "new", id |-> 0]]]
    /\ UNCHANGED <<service_vars, call_records, analysis_results, emotion_data, blobs, sync_vars>>

\* lines 178-209: emotion rows, status COMPLETED, commit, return
CommitCompleted(t) ==
    /\ tasks[t].pc = "commit"
    /\ LET id == tasks[t].call_record_id
           obj == [tasks[t].call EXCEPT !.analysis_status = COMPLETED]
           aid == AnalysisId(analysis_results, tasks[t].analysis)
       IN  /\ analysis_results' =
                UpsertAnalysisResult(analysis_results, tasks[t].analysis, id,
                                     tasks[t].transcription_result.text)
           /\ emotion_data' =
                IF tasks[t].emotion_result.state = "ok"
                THEN SaveEmotionData(emotion_data, aid,
                                     tasks[t].emotion_result.predictions)
                ELSE emotion_data
           /\ call_records' =
                [call_records EXCEPT ![id] = CommitCall(@, obj, tasks[t].loaded)]
           /\ tasks' = [tasks EXCEPT ![t] = EndedTask(@, "completed", NULL)]
    /\ UNCHANGED <<service_vars, blobs, sync_vars>>

\* lines 211-217: status FAILED, commit, task.retry(exc=e, countdown=60).
\* After a failed flush the session refuses the commit (PendingRollbackError):
\* the handler itself raises, nothing is committed and no retry is requested.
HandleFailure(t) ==
    /\ tasks[t].pc = "except"
    /\ LET id == tasks[t].call_record_id
           obj == [tasks[t].call EXCEPT !.analysis_status = FAILED]
       IN  IF tasks[t].invalid
           THEN /\ tasks' = [tasks EXCEPT ![t] = EndedTask(@, "error", @.raised)]
                /\ UNCHANGED call_records
           ELSE /\ call_records' =
                    [call_records EXCEPT ![id] = CommitCall(@, obj, tasks[t].loaded)]
                /\ tasks' = [tasks EXCEPT ![t] =
                    IF RetryExhausted(@.retries)
                    THEN EndedTask(@, "failed", @.raised)
                    ELSE QueuedTask(@.call_record_id, @.retries + 1)]
    /\ UNCHANGED <<service_vars, analysis_results, emotion_data, blobs, sync_vars>>

Limits == {1, 2}

Next ==
    \/ \E tenant \in Tenants : upload_audio(tenant)
    \/ \E c \in CallIds, tenant \in Tenants : reanalyze_call(c, tenant)
    \/ \E tenant \in Tenants \cup {NULL}, limit \in Limits :
            process_pending_calls(tenant, limit)
    \/ \E tenant \in Tenants \cup {NULL}, limit \in Limits :
            retry_failed_analyses(tenant, limit)
    \/ \E t \in TaskIds : LoadCall(t)
    \/ \E t \in TaskIds : SetProcessing(t)
    \/ \E t \in TaskIds : DownloadAudio(t)
    \/ \E t \in TaskIds : GatherResults(t)
    \/ \E t \in TaskIds : RunLLMAnalysis(t)
    \/ \E t \in TaskIds : SelectAnalysis(t)
    \/ \E t \in TaskIds : InsertAnalysis(t)
    \/ \E t \in TaskIds : CommitCompleted(t)
    \/ \E t \in TaskIds : HandleFailure(t)

Spec == Init /\ [][Next]_vars

\* ------------------------------------------ settings.py: sync_biztel_data
\* The request runs in one database session: rows it adds or changes are seen
\* by its own SELECTs (autoflush) and by nobody else until line 694 commits.
NewSync(tenant_id, after) ==
    [tenant_id |-> tenant_id,
     pc |-> "fetch",
     after |-> after,               \* the requests that had returned by then
     history_records |-> <<>>,
     i |-> 1,                       \* position of the loop of line 613
     new_calls |-> <<>>,            \* CallRecords added, not yet committed
     loaded_calls |-> {},           \* committed CallRecords loaded, as objects
     new_operators |-> <<>>,        \* Operators added, not yet committed
     operator_cache |-> {},
     total_records |-> 0,
     new_records |-> 0,
     updated_records |-> 0,
     recordings_downloaded |-> 0,
     errors |-> 0,
     recording |-> "none",          \* the latest pass: "stored", "failed" or none wanted
     committed |-> FALSE]

\* the request has returned its BiztelSyncResponse: the session is closed
EndedSync(run, committed) ==
    [run EXCEPT !.pc = "done", !.committed = committed,
                !.history_records = <<>>, !.i = 1,
                !.new_calls = <<>>, !.loaded_calls = {},
                !.new_operators = <<>>, !.operator_cache = {},
                !.recording = "none"]

\* a faulty variant: the recording is fetched whatever the provider's flag
WantsRecording_Always(record, audio_file_path) == audio_file_path = NoPath

\* line 678
WantsRecording(record, audio_file_path) ==
    record.has_recording /\ audio_file_path = NoPath

\* a faulty variant: the exception leaves the loop and the sync fails
AfterRecordingFailure_Aborts(run) ==
    [run EXCEPT !.pc = "done", !.errors = @ + 1, !.recording = "failed"]

\* lines 688-689: the download or the upload raised
AfterRecordingFailure(run) ==
    [run EXCEPT !.errors = @ + 1, !.recording = "failed"]

\* a faulty variant: the lookup never finds the stored call
ExistingCall_NeverFound(row, tenant_id, request_id) == FALSE

\* lines 616-621: the WHERE clause of the lookup
ExistingCall(row, tenant_id, request_id) ==
    row.tenant_id = tenant_id /\ row.request_id = request_id

\* a faulty variant: the operator lookup is not scoped to the tenant
ExistingOperator_AnyTenant(row, tenant_id, account_id) ==
    row.biztel_operator_id = account_id

\* lines 629-632
ExistingOperator(row, tenant_id, account_id) ==
    row.tenant_id = tenant_id /\ row.biztel_operator_id = account_id

\* the CallRecord object of committed row k in the session of run
SessionCall(run, k) ==
    IF \E e \in run.loaded_calls : e.id = k
    THEN (CHOOSE e \in run.loaded_calls : e.id = k).obj
    ELSE [operator_id |-> call_records[k].operator_id,
          audio_file_path |-> call_records[k].audio_file_path]

LoadedCall(run, k) ==
    IF \E e \in run.loaded_calls : e.id = k
    THEN (CHOOSE e \in run.loaded_calls : e.id = k).loaded
    ELSE [operator_id |-> call_records[k].operator_id,
          audio_file_path |-> call_records[k].audio_file_path]

\* line 694, for the rows the request loaded: one UPDATE per changed object,
\* carrying the attributes whose value differs from the loaded one
CommitLoadedCalls(rows, loaded_calls) ==
    [k \in 1..Len(rows) |->
        IF \E e \in loaded_calls : e.id = k
        THEN LET e == CHOOSE x \in loaded_calls : x.id = k
             IN  [rows[k] EXCEPT
                    !.operator_id =
                        IF e.obj.operator_id # e.loaded.operator_id
                        THEN e.obj.operator_id ELSE @,
                    !.audio_file_path =
                        IF e.obj.audio_file_path # e.loaded.audio_file_path
                        THEN e.obj.audio_file_path ELSE @]
        ELSE rows[k]]

\* lines 574-600: the request of an admin of the tenant (its Biztel
\* credentials are configured; otherwise the request is refused with 400)
sync_biztel_data(tenant_id) ==
    /\ Len(syncs) < MaxSyncs
    /\ syncs' = Append(syncs,
            NewSync(tenant_id, { p \in 1..Len(syncs) : syncs[p].pc = "done" }))
    /\ UNCHANGED <<service_vars, call_records, pipeline_vars, operators, blobs, provider>>

\* lines 604-611 and 696-697: the history of the range, or "Sync failed"
get_call_history_paginated(s) ==
    /\ syncs[s].pc = "fetch"
    /\ \E ok \in BOOLEAN :
        syncs' = [syncs EXCEPT ![s] =
            IF ~ok
            THEN EndedSync([@ EXCEPT !.errors = @ + 1], FALSE)
            ELSE [@ EXCEPT
                    !.history_records = provider,
                    !.total_records = Len(provider),
                    !.pc = IF provider = <<>> THEN "commit" ELSE "records"]]
    /\ UNCHANGED <<service_vars, call_records, pipeline_vars, operators, blobs, provider>>

\* lines 613-692: one pass of the loop
SyncRecord(s) ==
    /\ syncs[s].pc = "records"
    /\ LET run == syncs[s]
           record == run.history_records[run.i]
           next_pc == IF run.i = Len(run.history_records) THEN "commit" ELSE "records"
           committed_matches ==
                { k \in CallIds :
                    ExistingCall(call_records[k], run.tenant_id, record.request_id) }
           pending_matches ==
                { j \in 1..Len(run.new_calls) :
                    ExistingCall(run.new_calls[j], run.tenant_id, record.request_id) }
           cached == { e \in run.operator_cache : e.account_id = record.account_id }
           lookup == record.account_id # NULL /\ cached = {}
           committed_operators ==
                { o \in 1..Len(operators) :
                    ExistingOperator(operators[o], run.tenant_id, record.account_id) }
           pending_operators ==
                { o \in 1..Len(run.new_operators) :
                    ExistingOperator(run.new_operators[o], run.tenant_id, record.account_id) }
           found_operator ==
                IF committed_operators # {}
                THEN operators[CHOOSE o \in committed_operators : TRUE].id
                ELSE IF pending_operators # {}
                THEN run.new_operators[CHOOSE o \in pending_operators : TRUE].id
                ELSE NoOperator
           creates == lookup /\ found_operator = NoOperator /\ record.account_name # NULL
           new_operator ==
                [id |-> <<s, Len(run.new_operators) + 1>>,
                 tenant_id |-> run.tenant_id,
                 biztel_operator_id |-> record.account_id,
                 name |-> record.account_name]
           operator == IF creates THEN new_operator.id ELSE found_operator
           cache == IF lookup /\ operator # NoOperator
                    THEN run.operator_cache \cup
                            {[account_id |-> record.account_id, operator_id |-> operator]}
                    ELSE run.operator_cache
           operator_id ==
                IF \E e \in cache : e.account_id = record.account_id
                THEN (CHOOSE e \in cache : e.account_id = record.account_id).operator_id
                ELSE NoOperator
           resolved == [run EXCEPT
                            !.i = @ + 1, !.pc = next_pc,
                            !.operator_cache = cache,
                            !.new_operators =
                                IF creates THEN Append(@, new_operator) ELSE @]
       IN  IF Cardinality(committed_matches) + Cardinality(pending_matches) > 1
           THEN \* line 622: MultipleResultsFound, caught at line 691
                /\ syncs' = [syncs EXCEPT ![s] =
                        [run EXCEPT !.i = @ + 1, !.pc = next_pc, !.errors = @ + 1,
                                    !.recording = "none"]]
                /\ UNCHANGED blobs
           ELSE IF lookup /\ Cardinality(committed_operators)
                                + Cardinality(pending_operators) > 1
           THEN \* line 634: MultipleResultsFound, caught at line 691
                /\ syncs' = [syncs EXCEPT ![s] =
                        [run EXCEPT !.i = @ + 1, !.pc = next_pc, !.errors = @ + 1,
                                    !.recording = "none"]]
                /\ UNCHANGED blobs
           ELSE \E downloaded \in BOOLEAN :
                LET audio_file_path ==
                        IF committed_matches # {}
                        THEN SessionCall(run, CHOOSE k \in committed_matches : TRUE).audio_file_path
                        ELSE IF pending_matches # {}
                        THEN run.new_calls[CHOOSE j \in pending_matches : TRUE].audio_file_path
                        ELSE NoPath
                    wanted == WantsRecording(record, audio_file_path)
                    stored == wanted /\ downloaded
                    path == IF stored THEN blobs + 1 ELSE audio_file_path
                    counted ==
                        IF wanted /\ ~downloaded
                        THEN AfterRecordingFailure(resolved)
                        ELSE [resolved EXCEPT
                                !.recordings_downloaded = IF stored THEN @ + 1 ELSE @,
                                !.recording = IF stored THEN "stored" ELSE "none"]
                IN  /\ blobs' = IF stored THEN blobs + 1 ELSE blobs
                    /\ syncs' = [syncs EXCEPT ![s] =
                        IF committed_matches # {}
                        THEN LET k == CHOOSE x \in committed_matches : TRUE
                             IN  [counted EXCEPT
                                    !.updated_records = @ + 1,
                                    !.loaded_calls =
                                        { e \in @ : e.id # k } \cup
                                        {[id |-> k,
                                          loaded |-> LoadedCall(run, k),
                                          obj |-> [operator_id |-> operator_id,
                                                   audio_file_path |-> path]]}]
                        ELSE IF pending_matches # {}
                        THEN LET j == CHOOSE x \in pending_matches : TRUE
                             IN  [counted EXCEPT
                                    !.updated_records = @ + 1,
                                    !.new_calls[j].operator_id = operator_id,
                                    !.new_calls[j].audio_file_path = path]
                        ELSE [counted EXCEPT
                                !.new_records = @ + 1,
                                !.new_calls = Append(@,
                                    [tenant_id |-> run.tenant_id,
                                     request_id |-> record.request_id,
                                     operator_id |-> operator_id,
                                     operation_flow_id |-> NULL,
                                     inquiry_category |-> NULL,
                                     audio_file_path |-> path,
                                     analysis_status |-> PENDING])]]
    /\ UNCHANGED <<service_vars, call_records, pipeline_vars, operators, provider>>

\* lines 694-705: commit and return the counts
SyncCommit(s) ==
    /\ syncs[s].pc = "commit"
    /\ call_records' =
            CommitLoadedCalls(call_records, syncs[s].loaded_calls) \o syncs[s].new_calls
    /\ operators' = operators \o syncs[s].new_operators
    /\ syncs' = [syncs EXCEPT ![s] = EndedSync(@, TRUE)]
    /\ UNCHANGED <<service_vars, pipeline_vars, blobs, provider>>

SyncIds == 1..Len(syncs)

\* the provider holds some history for the range; the database is empty
SyncInit ==
    /\ sentiment = NoSentiment
    /\ bucket = NoBucket
    /\ factory = NoFactory
    /\ http = NoRequest
    /\ daily_sync = NoDailySync
    /\ parser = NoParse
    /\ call_records = <<>>
    /\ analysis_results = <<>>
    /\ emotion_data = <<>>
    /\ operators = <<>>
    /\ blobs = 0
    /\ tasks = <<>>
    /\ provider \in SeqsUpTo(CallHistoryRecords, MaxRecords)
    /\ syncs = <<>>
    /\ pager = NoPager
    /\ client = NoClient
    /\ hume_job = NoJob
    /\ llm = NoAnalysisCall

SyncNext ==
    \/ \E tenant \in Tenants : sync_biztel_data(tenant)
    \/ \E s \in SyncIds : get_call_history_paginated(s)
    \/ \E s \in SyncIds : SyncRecord(s)
    \/ \E s \in SyncIds : SyncCommit(s)

SyncSpec == SyncInit /\ [][SyncNext]_vars

\* -------------------------- biztel.py: get_call_history_paginated
\* start_date and end_date of the call; every record of the range starts
\* before end_date
start_date == 0
end_date == MaxTime + 1

\* the provider's records of the range, in time order; request_id tells
\* them apart
HistoryData ==
    UNION { { [i \in 1..n |-> [request_id |-> i, start_time |-> times[i]]] :
                times \in { f \in [1..n -> start_date..MaxTime] :
                              \A i \in 1..(n - 1) : f[i] <= f[i + 1] } } :
            n \in 0..MaxHistory }

\* lines 162-224 against the provider: the earliest limit-many records that
\* start in [from, to], in time order
get_call_history(data, from, to, limit) ==
    LET window == SelectSeq(data,
                    LAMBDA r : r.start_time >= from /\ r.start_time <= to)
    IN  SubSeq(window, 1, Min(limit, Len(window)))

RECURSIVE MaxStartTime(_)
MaxStartTime(records) ==
    IF Len(records) = 1 THEN records[1].start_time
    ELSE LET rest == MaxStartTime(Tail(records))
         IN  IF records[1].start_time > rest THEN records[1].start_time ELSE rest

\* a faulty variant: the next window starts at the last record's time
PageLoop_NoAdvance ==
    /\ pager.pc = "loop"
    /\ IF ~(pager.current_start < end_date)
       THEN pager' = [pager EXCEPT !.pc = "done"]
       ELSE \E ok \in BOOLEAN :
            LET records == get_call_history(pager.data, pager.current_start,
                                            end_date, page_size)
            IN  pager' =
                  IF ~ok THEN [pager EXCEPT !.pc = "raised"]
                  ELSE IF records = <<>> THEN [pager EXCEPT !.pc = "done"]
                  ELSE IF Len(records) < page_size
                  THEN [pager EXCEPT !.pc = "done",
                                     !.all_records = @ \o records]
                  ELSE [pager EXCEPT
                            !.all_records = @ \o records,
                            !.current_start = MaxStartTime(records)]
    /\ UNCHANGED <<store_vars, client, hume_job, llm, parser, daily_sync, http, factory, bucket, sentiment>>

\* lines 242-263: one pass of the while loop
PageLoop ==
    /\ pager.pc = "loop"
    /\ IF ~(pager.current_start < end_date)
       THEN pager' = [pager EXCEPT !.pc = "done"]
       ELSE \E ok \in BOOLEAN :
            LET records == get_call_history(pager.data, pager.current_start,
                                            end_date, page_size)
            IN  pager' =
                  IF ~ok THEN [pager EXCEPT !.pc = "raised"]
                  ELSE IF records = <<>> THEN [pager EXCEPT !.pc = "done"]
                  ELSE IF Len(records) < page_size
                  THEN [pager EXCEPT !.pc = "done",
                                     !.all_records = @ \o records]
                  ELSE [pager EXCEPT
                            !.all_records = @ \o records,
                            !.current_start = MaxStartTime(records) + 1]
    /\ UNCHANGED <<store_vars, client, hume_job, llm, parser, daily_sync, http, factory, bucket, sentiment>>

\* lines 238-240: a call over some provider data
PagerInit ==
    /\ sentiment = NoSentiment
    /\ bucket = NoBucket
    /\ factory = NoFactory
    /\ http = NoRequest
    /\ daily_sync = NoDailySync
    /\ parser = NoParse
    /\ call_records = <<>>
    /\ analysis_results = <<>>
    /\ emotion_data = <<>>
    /\ operators = <<>>
    /\ blobs = 0
    /\ tasks = <<>>
    /\ provider = <<>>
    /\ syncs = <<>>
    /\ client = NoClient
    /\ hume_job = NoJob
    /\ llm = NoAnalysisCall
    /\ \E data \in HistoryData :
        pager = [pc |-> "loop", data |-> data,
                 current_start |-> start_date, all_records |-> <<>>]

PagerNext == PageLoop

PagerSpec == PagerInit /\ [][PagerNext]_vars

\* the event loop keeps running the coroutine until it returns or raises
PagerFairSpec == PagerInit /\ [][PagerNext]_vars /\ WF_vars(PageLoop)

\* ------------------------------------------------ biztel.py: BiztelClient
TIMEOUT == 0     \* httpx.TimeoutException instead of a response
StatusCodes == {200, 400, 401, 404, 429, 500, 503}
Responses == StatusCodes \cup {TIMEOUT}

CallerIds == 1..Len(client.callers)

\* wait_exponential(multiplier, min, max) after the given attempt, in seconds
wait_exponential(attempt_number) ==
    LET result == wait_multiplier * 2 ^ (attempt_number - 1)
        capped == IF result < wait_max THEN result ELSE wait_max
    IN  IF capped > wait_min THEN capped ELSE wait_min

\* a faulty variant: server errors are retried too
Retryable_ServerErrors(response) ==
    response = TIMEOUT \/ response = 429 \/ response >= 500

\* retry_if_exception_type((httpx.TimeoutException, BiztelRateLimitError))
Retryable(response) == response = TIMEOUT \/ response = 429

\* a faulty variant: no stop condition
StopRetrying_Never(attempt_number) == FALSE

\* stop_after_attempt(3)
StopRetrying(attempt_number) == attempt_number >= stop_after_attempt

\* a faulty variant: every error status raises the generic error
RaisedFor_Unclassified(response) ==
    IF response = TIMEOUT THEN "TimeoutException"
    ELSE IF response = 429 THEN "BiztelRateLimitError"
    ELSE IF response >= 400 THEN "BiztelAPIError"
    ELSE NULL

\* lines 150-159: the exception raised for a response, NULL for none
RaisedFor(response) ==
    IF response = TIMEOUT THEN "TimeoutException"
    ELSE IF response = 401 THEN "BiztelAuthError"
    ELSE IF response = 404 THEN "BiztelNotFoundError"
    ELSE IF response = 429 THEN "BiztelRateLimitError"
    ELSE IF response >= 500 THEN "BiztelAPIError"
    ELSE IF response >= 400 THEN "HTTPStatusError"
    ELSE NULL

\* a faulty variant: _last_request_time is never updated
Stamped_NoStamp(c) ==
    [client EXCEPT
        !.since_sent = 0,
        !.callers[c].pc = "awaiting", !.callers[c].remaining = 0]

\* line 110 and lines 141-148: the stamp, then the request goes out
Stamped(c) ==
    [client EXCEPT
        !.elapsed = 0,
        !.since_sent = 0,
        !.callers[c].pc = "awaiting", !.callers[c].remaining = 0]

\* a caller enters _request (line 137)
CallRequest(c) ==
    /\ client.callers[c].pc \in {"idle", "returned", "raised"}
    /\ client.callers[c].calls < MaxRequests
    /\ client' = [client EXCEPT
            !.callers[c] = [IdleCaller EXCEPT
                !.pc = "rate_limit", !.attempt = 1, !.calls = client.callers[c].calls + 1]]
    /\ UNCHANGED <<store_vars, pager, hume_job, llm, parser, daily_sync, http, factory, bucket, sentiment>>

\* lines 106-110, up to the sleep if there is one
RateLimitWait(c) ==
    /\ client.callers[c].pc = "rate_limit"
    /\ LET elapsed == client.elapsed
       IN  client' =
             IF elapsed < rate_limit_delay
             THEN [client EXCEPT
                     !.callers[c].pc = "sleeping",
                     !.callers[c].remaining = rate_limit_delay - elapsed]
             ELSE Stamped(c)
    /\ UNCHANGED <<store_vars, pager, hume_job, llm, parser, daily_sync, http, factory, bucket, sentiment>>

\* lines 109-110: the sleep is over (at its time or later)
WakeUp(c) ==
    /\ client.callers[c].pc = "sleeping"
    /\ client.callers[c].remaining = 0
    /\ client' = Stamped(c)
    /\ UNCHANGED <<store_vars, pager, hume_job, llm, parser, daily_sync, http, factory, bucket, sentiment>>

\* lines 142-160 and the retry decorator (lines 124-128)
Respond(c, response) ==
    /\ client.callers[c].pc = "awaiting"
    /\ LET caller == [client.callers[c] EXCEPT !.response = response]
           raised == RaisedFor(response)
       IN  client' = [client EXCEPT !.callers[c] =
             IF raised = NULL
             THEN [caller EXCEPT !.pc = "returned", !.result = "returned"]
             ELSE IF ~Retryable(response)
             THEN [caller EXCEPT !.pc = "raised", !.result = raised]
             ELSE IF StopRetrying(caller.attempt)
             THEN [caller EXCEPT !.pc = "raised", !.result = "RetryError"]
             ELSE [caller EXCEPT
                     !.pc = "backoff",
                     !.remaining =
                        wait_exponential(caller.attempt) * TicksPerSecond]]
    /\ UNCHANGED <<store_vars, pager, hume_job, llm, parser, daily_sync, http, factory, bucket, sentiment>>

\* tenacity's sleep is over: the next attempt enters _request
Retry(c) ==
    /\ client.callers[c].pc = "backoff"
    /\ client.callers[c].remaining = 0
    /\ client' = [client EXCEPT
            !.callers[c].pc = "rate_limit",
            !.callers[c].attempt = @ + 1]
    /\ UNCHANGED <<store_vars, pager, hume_job, llm, parser, daily_sync, http, factory, bucket, sentiment>>

\* the event-loop clock
Tick ==
    /\ client' = [client EXCEPT
            !.elapsed = Min(@ + 1, rate_limit_delay),
            !.since_sent = Min(@ + 1, rate_limit_delay),
            !.callers = [c \in CallerIds |->
                [client.callers[c] EXCEPT
                    !.remaining = IF @ > 0 THEN @ - 1 ELSE 0]]]
    /\ UNCHANGED <<store_vars, pager, hume_job, llm, parser, daily_sync, http, factory, bucket, sentiment>>

ClientInit ==
    /\ sentiment = NoSentiment
    /\ bucket = NoBucket
    /\ factory = NoFactory
    /\ http = NoRequest
    /\ daily_sync = NoDailySync
    /\ parser = NoParse
    /\ call_records = <<>>
    /\ analysis_results = <<>>
    /\ emotion_data = <<>>
    /\ operators = <<>>
    /\ blobs = 0
    /\ tasks = <<>>
    /\ provider = <<>>
    /\ syncs = <<>>
    /\ pager = NoPager
    /\ client = [NoClient EXCEPT !.callers = [c \in 1..MaxCallers |-> IdleCaller]]
    /\ hume_job = NoJob
    /\ llm = NoAnalysisCall

ClientNext ==
    \/ \E c \in CallerIds : CallRequest(c)
    \/ \E c \in CallerIds : RateLimitWait(c)
    \/ \E c \in CallerIds : WakeUp(c)
    \/ \E c \in CallerIds, response \in Responses : Respond(c, response)
    \/ \E c \in CallerIds : Retry(c)
    \/ Tick

ClientSpec == ClientInit /\ [][ClientNext]_vars

\* ------------------------------------------------ hume.py: _wait_for_job
\* the job states the status request can report
JobStatuses == {"QUEUED", "IN_PROGRESS", "COMPLETED", "FAILED"}

\* a faulty variant: the waited time is not accumulated
Slept_NotAccumulated(elapsed) == elapsed

\* lines 171-172
Slept(elapsed) == elapsed + poll_interval

\* lines 151-169: the status request (it returns a status or raises)
PollJob ==
    /\ hume_job.pc = "poll"
    /\ \E ok \in BOOLEAN, status \in JobStatuses :
        hume_job' =
            IF ~ok
            THEN [hume_job EXCEPT !.pc = "raised", !.polls = @ + 1,
                                  !.result = "HTTPError"]
            ELSE IF status = "COMPLETED"
            THEN [hume_job EXCEPT !.pc = "predictions", !.polls = @ + 1,
                                  !.status = status]
            ELSE IF status = "FAILED"
            THEN [hume_job EXCEPT !.pc = "raised", !.polls = @ + 1,
                                  !.status = status, !.result = "Exception"]
            ELSE [hume_job EXCEPT !.pc = "sleep", !.polls = @ + 1,
                                  !.status = status]
    /\ UNCHANGED <<store_vars, pager, client, llm, parser, daily_sync, http, factory, bucket, sentiment>>

\* lines 160-166: the predictions request
GetPredictions ==
    /\ hume_job.pc = "predictions"
    /\ \E ok \in BOOLEAN :
        hume_job' = IF ok
                    THEN [hume_job EXCEPT !.pc = "returned", !.result = "predictions"]
                    ELSE [hume_job EXCEPT !.pc = "raised", !.result = "HTTPError"]
    /\ UNCHANGED <<store_vars, pager, client, llm, parser, daily_sync, http, factory, bucket, sentiment>>

\* lines 171-174 and the loop condition of line 150
SleepPollInterval ==
    /\ hume_job.pc = "sleep"
    /\ LET elapsed == Slept(hume_job.elapsed)
       IN  hume_job' =
             IF elapsed < max_wait_seconds
             THEN [hume_job EXCEPT !.pc = "poll", !.elapsed = elapsed]
             ELSE [hume_job EXCEPT !.pc = "raised", !.elapsed = elapsed,
                                   !.result = "TimeoutError"]
    /\ UNCHANGED <<store_vars, pager, client, llm, parser, daily_sync, http, factory, bucket, sentiment>>

\* lines 141-150: a call with the default arguments
HumeInit ==
    /\ sentiment = NoSentiment
    /\ bucket = NoBucket
    /\ factory = NoFactory
    /\ http = NoRequest
    /\ daily_sync = NoDailySync
    /\ parser = NoParse
    /\ call_records = <<>>
    /\ analysis_results = <<>>
    /\ emotion_data = <<>>
    /\ operators = <<>>
    /\ blobs = 0
    /\ tasks = <<>>
    /\ provider = <<>>
    /\ syncs = <<>>
    /\ pager = NoPager
    /\ client = NoClient
    /\ hume_job = [NoJob EXCEPT !.pc = "poll"]
    /\ llm = NoAnalysisCall

HumeNext == PollJob \/ GetPredictions \/ SleepPollInterval

\* every request returns or raises within the client's 30 s timeout (line 150)
\* and every sleep ends, so a step that can be taken is taken
HumeSpec == HumeInit /\ [][HumeNext]_vars /\ WF_vars(HumeNext)

\* ------------------------------------------------- llm.py: full_analysis
\* the flow dictionaries a caller can pass: an id and a flow_definition that
\* is None, an empty dictionary or a dictionary with steps
FlowIds == {f.id : f \in OperationFlows}
FlowDefinitions == {NULL, "empty", "steps"}
FlowDicts == [id : FlowIds, flow_definition : FlowDefinitions]
AvailableFlowLists ==
    { fs \in SUBSET FlowDicts : \A f, g \in fs : f.id = g.id => f = g }

\* classify_flow returns data.get("flow_id"): null, a listed id or another id
ClassifiedFlowIds == {NULL, UnknownFlowId} \cup FlowIds

\* the sub-analyses in the order of their await statements
AnalysisOrder ==
    <<"classify_flow", "check_flow_compliance", "calculate_quality_score",
      "summarize_call", "analyze_fillers">>

\* a faulty variant: a preselected flow does not skip the classification
ShouldClassify_IgnoresPreselected(available_flows, selected_flow) ==
    available_flows # {}

\* line 409: if available_flows and not selected_flow
ShouldClassify(available_flows, selected_flow) ==
    available_flows # {} /\ selected_flow = NoFlow

\* lines 418-422: next((f for f in available_flows if f["id"] == flow_id), None)
FindFlow(available_flows, flow_id) ==
    IF \E f \in available_flows : f.id = flow_id
    THEN CHOOSE f \in available_flows : f.id = flow_id
    ELSE NoFlow

\* line 425: if selected_flow and selected_flow.get("flow_definition")
ShouldCheckCompliance(selected_flow) ==
    selected_flow # NoFlow /\ selected_flow.flow_definition \notin {NULL, "empty"}

\* where the call goes after the classification block
AfterClassification(selected_flow) ==
    IF ShouldCheckCompliance(selected_flow) THEN "compliance" ELSE "quality"

\* lines 410-422: await classify_flow, which returns a flow id or raises
classify_flow ==
    /\ llm.pc = "classify"
    /\ \E ok \in BOOLEAN, flow_id \in ClassifiedFlowIds :
        LET called == [llm EXCEPT !.calls = Append(@, "classify_flow")]
            selected_flow ==
                IF flow_id # NULL THEN FindFlow(llm.available_flows, flow_id)
                ELSE llm.selected_flow
        IN  llm' = IF ~ok THEN [called EXCEPT !.pc = "raised"]
                   ELSE [called EXCEPT
                           !.flow_id = flow_id,
                           !.results = @ \cup {"flow_classification"},
                           !.selected_flow = selected_flow,
                           !.pc = AfterClassification(selected_flow)]
    /\ UNCHANGED <<store_vars, pager, client, hume_job, parser, daily_sync, http, factory, bucket, sentiment>>

\* lines 425-435
check_flow_compliance ==
    /\ llm.pc = "compliance"
    /\ \E ok \in BOOLEAN :
        LET called == [llm EXCEPT !.calls = Append(@, "check_flow_compliance")]
        IN  llm' = IF ~ok THEN [called EXCEPT !.pc = "raised"]
                   ELSE [called EXCEPT !.results = @ \cup {"flow_compliance"},
                                       !.pc = "quality"]
    /\ UNCHANGED <<store_vars, pager, client, hume_job, parser, daily_sync, http, factory, bucket, sentiment>>

\* lines 437-444
calculate_quality_score ==
    /\ llm.pc = "quality"
    /\ \E ok \in BOOLEAN :
        LET called == [llm EXCEPT !.calls = Append(@, "calculate_quality_score")]
        IN  llm' = IF ~ok THEN [called EXCEPT !.pc = "raised"]
                   ELSE [called EXCEPT !.results = @ \cup {"quality_score"},
                                       !.pc = "summary"]
    /\ UNCHANGED <<store_vars, pager, client, hume_job, parser, daily_sync, http, factory, bucket, sentiment>>

\* lines 446-454
summarize_call ==
    /\ llm.pc = "summary"
    /\ \E ok \in BOOLEAN :
        LET called == [llm EXCEPT !.calls = Append(@, "summarize_call")]
        IN  llm' = IF ~ok THEN [called EXCEPT !.pc = "raised"]
                   ELSE [called EXCEPT !.results = @ \cup {"summary"},
                                       !.pc = "fillers"]
    /\ UNCHANGED <<store_vars, pager, client, hume_job, parser, daily_sync, http, factory, bucket, sentiment>>

\* lines 456-464
analyze_fillers ==
    /\ llm.pc = "fillers"
    /\ \E ok \in BOOLEAN :
        LET called == [llm EXCEPT !.calls = Append(@, "analyze_fillers")]
        IN  llm' = IF ~ok THEN [called EXCEPT !.pc = "raised"]
                   ELSE [called EXCEPT !.results = @ \cup {"filler_analysis"},
                                       !.pc = "returned"]
    /\ UNCHANGED <<store_vars, pager, client, hume_job, parser, daily_sync, http, factory, bucket, sentiment>>

\* lines 386-409: a call of full_analysis with its arguments
LLMInit ==
    /\ sentiment = NoSentiment
    /\ bucket = NoBucket
    /\ factory = NoFactory
    /\ http = NoRequest
    /\ daily_sync = NoDailySync
    /\ parser = NoParse
    /\ call_records = <<>>
    /\ analysis_results = <<>>
    /\ emotion_data = <<>>
    /\ operators = <<>>
    /\ blobs = 0
    /\ tasks = <<>>
    /\ provider = <<>>
    /\ syncs = <<>>
    /\ pager = NoPager
    /\ client = NoClient
    /\ hume_job = NoJob
    /\ \E available_flows \in AvailableFlowLists,
          selected_flow \in {NoFlow} \cup FlowDicts :
        llm = [NoAnalysisCall EXCEPT
                 !.available_flows = available_flows,
                 !.preselected_flow = selected_flow,
                 !.selected_flow = selected_flow,
                 !.pc = IF ShouldClassify(available_flows, selected_flow)
                        THEN "classify"
                        ELSE AfterClassification(selected_flow)]

LLMNext ==
    \/ classify_flow
    \/ check_flow_compliance
    \/ calculate_quality_score
    \/ summarize_call
    \/ analyze_fillers

LLMSpec == LLMInit /\ [][LLMNext]_vars

\* ------------------------------------------ llm.py: _parse_json_response
\* A response is a sequence of tokens: the opening fence with its language
\* tag (```json), a bare fence (```), the braces of a JSON object, a member
\* of an object, and a piece of prose.
Tokens == {"fence_json", "fence", "{", "}", "member", "prose"}
Responses_LLM == SeqsUpTo(Tokens, MaxResponseLen)

\* nesting depth after each token of text, -1 once the text cannot be an
\* object any more
RECURSIVE DepthAfter(_, _)
DepthAfter(text, n) ==
    IF n = 0 THEN 0
    ELSE LET before == DepthAfter(text, n - 1)
             token == text[n]
         IN  IF before < 0 THEN -1
             ELSE IF n > 1 /\ before = 0 THEN -1
             ELSE IF token = "{" THEN before + 1
             ELSE IF token = "}" THEN before - 1
             ELSE IF token = "member" /\ before > 0 THEN before
             ELSE -1

\* json.loads(text) returns: text is one JSON object, nested objects allowed
Loads(text) == Len(text) > 0 /\ DepthAfter(text, Len(text)) = 0

Positions(text, tokens) == { i \in DOMAIN text : text[i] \in tokens }

SetMin(S) == CHOOSE x \in S : \A y \in S : x <= y
SetMax(S) == CHOOSE x \in S : \A y \in S : x >= y

\* line 110: re.search(r"```json\s*(.*?)\s*```", response, re.DOTALL): the
\* first opening fence and, lazily, the first fence of either kind after it
\* (the opening fence begins with the characters of the bare one)
FenceMatches(response) ==
    /\ Positions(response, {"fence_json"}) # {}
    /\ \E j \in Positions(response, {"fence_json", "fence"}) :
          j > SetMin(Positions(response, {"fence_json"}))

FenceGroup(response) ==
    LET open  == SetMin(Positions(response, {"fence_json"}))
        close == SetMin({ j \in Positions(response, {"fence_json", "fence"}) : j > open })
    IN  SubSeq(response, open + 1, close - 1)

\* line 119: re.search(r"\{.*\}", response, re.DOTALL): the first opening
\* brace and, greedily, the last closing brace after it
BraceMatches(response) ==
    /\ Positions(response, {"{"}) # {}
    /\ \E j \in Positions(response, {"}"}) : j > SetMin(Positions(response, {"{"}))

BraceGroup(response) ==
    LET open  == SetMin(Positions(response, {"{"}))
        close == SetMax(Positions(response, {"}"}))
    IN  SubSeq(response, open, close)

\* response[:500]
Truncated(response) == SubSeq(response, 1, Min(Len(response), error_prefix_len))

\* lines 107-122, with the exception each json.loads call raises
ParseJsonResponse(response) ==
    IF FenceMatches(response)
    THEN IF Loads(FenceGroup(response))
         THEN [outcome |-> "returned", value |-> FenceGroup(response)]
         ELSE [outcome |-> "JSONDecodeError", value |-> <<>>]
    ELSE IF Loads(response)
    THEN [outcome |-> "returned", value |-> response]
    ELSE IF BraceMatches(response)
    THEN IF Loads(BraceGroup(response))
         THEN [outcome |-> "returned", value |-> BraceGroup(response)]
         ELSE [outcome |-> "JSONDecodeError", value |-> <<>>]
    ELSE [outcome |-> "ValueError", value |-> Truncated(response)]

parse_json_response ==
    /\ parser.pc = "called"
    /\ LET r == ParseJsonResponse(parser.response)
       IN  parser' = [parser EXCEPT !.pc = "done", !.outcome = r.outcome,
                                    !.value = r.value]
    /\ UNCHANGED <<store_vars, pager, client, hume_job, llm, daily_sync, http, factory, bucket, sentiment>>

ParserInit ==
    /\ sentiment = NoSentiment
    /\ bucket = NoBucket
    /\ factory = NoFactory
    /\ http = NoRequest
    /\ daily_sync = NoDailySync
    /\ call_records = <<>>
    /\ analysis_results = <<>>
    /\ emotion_data = <<>>
    /\ operators = <<>>
    /\ blobs = 0
    /\ tasks = <<>>
    /\ provider = <<>>
    /\ syncs = <<>>
    /\ pager = NoPager
    /\ client = NoClient
    /\ hume_job = NoJob
    /\ llm = NoAnalysisCall
    /\ \E response \in Responses_LLM :
          parser = [NoParse EXCEPT !.pc = "called", !.response = response]

ParserNext == parse_json_response

ParserSpec == ParserInit /\ [][ParserNext]_vars

\* ------------------------------------- analysis.py: the batch tasks alone
\* The call_records table a batch task can find: calls of any tenant in any
\* status, uploaded (with a stored audio path) or synced without recording.
StoredCalls ==
    { [tenant_id |-> tenant,
       request_id |-> NULL,
       operator_id |-> NoOperator,
       operation_flow_id |-> NULL,
       inquiry_category |-> NULL,
       audio_file_path |-> path,
       analysis_status |-> status] :
      tenant \in Tenants, path \in {NoPath, 1}, status \in AnalysisStatus }

BatchInit ==
    /\ sentiment = NoSentiment
    /\ bucket = NoBucket
    /\ factory = NoFactory
    /\ http = NoRequest
    /\ daily_sync = NoDailySync
    /\ call_records \in SeqsUpTo(StoredCalls, MaxRows)
    /\ analysis_results = <<>>
    /\ emotion_data = <<>>
    /\ operators = <<>>
    /\ blobs = 1
    /\ tasks = <<>>
    /\ provider = <<>>
    /\ syncs = <<>>
    /\ pager = NoPager
    /\ client = NoClient
    /\ hume_job = NoJob
    /\ llm = NoAnalysisCall
    /\ parser = NoParse

PendingBatchNext ==
    \E tenant \in Tenants \cup {NULL}, limit \in Limits :
        process_pending_calls(tenant, limit)

\* invocations of process_pending_calls, one after the other
PendingBatchSpec == BatchInit /\ [][PendingBatchNext]_vars

RetryBatchNext ==
    \E tenant \in Tenants \cup {NULL}, limit \in Limits :
        retry_failed_analyses(tenant, limit)

\* invocations of retry_failed_analyses, one after the other
RetryBatchSpec == BatchInit /\ [][RetryBatchNext]_vars

\* ------------------------------------- analysis.py: daily_biztel_sync
\* lines 285-297: the tenants the query returns, in the order of the loop
\* (active tenants with an API key and a base URL, one tenant if an id is given)
DailyInit ==
    /\ sentiment = NoSentiment
    /\ bucket = NoBucket
    /\ factory = NoFactory
    /\ http = NoRequest
    /\ call_records \in SeqsUpTo(StoredCalls, 1)
    /\ analysis_results = <<>>
    /\ emotion_data = <<>>
    /\ operators = <<>>
    /\ blobs = 1
    /\ tasks = <<>>
    /\ provider \in SeqsUpTo(CallHistoryRecords, MaxRecords)
    /\ syncs = <<>>
    /\ pager = NoPager
    /\ client = NoClient
    /\ hume_job = NoJob
    /\ llm = NoAnalysisCall
    /\ parser = NoParse
    /\ \E configured \in SeqsUpTo(Tenants, Cardinality(Tenants)) :
          /\ \A i, j \in DOMAIN configured : configured[i] = configured[j] => i = j
          /\ daily_sync = [NoDailySync EXCEPT
                            !.pc = IF configured = <<>> THEN "returned" ELSE "fetch",
                            !.configured = configured,
                            !.tenants = configured]

\* after a tenant's iteration: the next tenant or the return of lines 336-339
NextTenant(d) ==
    [d EXCEPT !.tenants = Tail(@),
              !.pc = IF Len(d.tenants) > 1 THEN "fetch" ELSE "returned"]

\* lines 299-323: the client is built and yesterday's history is fetched;
\* an exception is caught by lines 329-334
DailyFetch ==
    /\ daily_sync.pc = "fetch"
    /\ \E ok \in BOOLEAN :
        LET tenant == Head(daily_sync.tenants)
        IN  daily_sync' =
              IF ok
              THEN [daily_sync EXCEPT
                      !.pc = "enqueue",
                      !.records = provider,
                      !.fetched = Append(@, [tenant_id |-> tenant, records |-> provider]),
                      !.results = Append(@, [tenant_id |-> tenant,
                                             records_fetched |-> Len(provider),
                                             status |-> "success"])]
              ELSE NextTenant([daily_sync EXCEPT
                      !.results = Append(@, [tenant_id |-> tenant,
                                             records_fetched |-> 0,
                                             status |-> "failed"])])
    /\ UNCHANGED <<store_vars, pager, client, hume_job, llm, parser, http, factory, bucket, sentiment>>

\* lines 326-327: process_pending_calls.delay(str(tenant.id), limit=1000)
DailyEnqueue ==
    /\ daily_sync.pc = "enqueue"
    /\ daily_sync' =
          NextTenant([daily_sync EXCEPT
              !.batches = Append(@, [tenant_id |-> Head(daily_sync.tenants),
                                     limit |-> daily_batch_limit]),
              !.records = <<>>])
    /\ UNCHANGED <<store_vars, pager, client, hume_job, llm, parser, http, factory, bucket, sentiment>>

DailyNext == DailyFetch \/ DailyEnqueue

DailySpec == DailyInit /\ [][DailyNext]_vars

\* ------------------------------------- calls.py: the reanalyze endpoint
\* The analysed stores a request can find: any of the calls with audio has
\* its AnalysisResult row, and any of these rows has an emotion_data row.
AnalysisTables(calls) ==
    { [i \in 1..Len(ids) |-> [call_record_id |-> ids[i], transcript |-> "hello"]] :
        ids \in { SortedSeq(S) :
                    S \in SUBSET { c \in 1..Len(calls) : calls[c].audio_file_path # NoPath } } }

EmotionTables(analyses) ==
    { [i \in 1..Len(ids) |-> [analysis_id |-> ids[i], emotion_type |-> "joy"]] :
        ids \in { SortedSeq(S) : S \in SUBSET (1..Len(analyses)) } }

\* a faulty variant: the call is looked up by its id alone
ReanalyzeStatus_AnyTenant(call_id, user_tenant) ==
    IF call_id \notin CallIds THEN 404
    ELSE IF call_records[call_id].audio_file_path = NoPath THEN 400
    ELSE 200

\* lines 490-509: the response status of a request of a user of user_tenant
ReanalyzeStatus(call_id, user_tenant) ==
    IF call_id \notin CallIds \/ call_records[call_id].tenant_id # user_tenant
    THEN 404
    ELSE IF call_records[call_id].audio_file_path = NoPath THEN 400
    ELSE 200

\* lines 483-520: the whole handler, with its response
ReanalyzeEndpoint(call_id, user_tenant) ==
    LET status_code == ReanalyzeStatus(call_id, user_tenant)
    IN  /\ http' = [call_id |-> call_id, tenant_id |-> user_tenant,
                    status_code |-> status_code]
        /\ call_records' =
              IF status_code = 200
              THEN [call_records EXCEPT ![call_id].analysis_status = PENDING]
              ELSE call_records
        /\ UNCHANGED <<pipeline_vars, blobs, sync_vars, pager, client, hume_job,
                       llm, parser, daily_sync, factory, bucket, sentiment>>

\* the ids a request can name: the stored calls and one unknown id
RequestedIds == 1..(MaxRows + 1)

ReanalyzeInit ==
    /\ sentiment = NoSentiment
    /\ bucket = NoBucket
    /\ factory = NoFactory
    /\ call_records \in SeqsUpTo(StoredCalls, MaxRows)
    /\ analysis_results \in AnalysisTables(call_records)
    /\ emotion_data \in EmotionTables(analysis_results)
    /\ operators = <<>>
    /\ blobs = 1
    /\ tasks = <<>>
    /\ provider = <<>>
    /\ syncs = <<>>
    /\ pager = NoPager
    /\ client = NoClient
    /\ hume_job = NoJob
    /\ llm = NoAnalysisCall
    /\ parser = NoParse
    /\ daily_sync = NoDailySync
    /\ http = NoRequest

ReanalyzeNext ==
    \E call_id \in RequestedIds, user_tenant \in Tenants :
        ReanalyzeEndpoint(call_id, user_tenant)

ReanalyzeSpec == ReanalyzeInit /\ [][ReanalyzeNext]_vars

\* ------------------------- celery_app.py: the beat schedule and the workers
\* The periodic triggers of lines 45-55 that concern the pipeline: the beat
\* sends daily_biztel_sync every 24 hours.  A run starts with its own results;
\* a day is long enough for the queued batch messages to be taken.
DailyBeat ==
    /\ daily_sync.pc = "returned"
    /\ daily_sync.batches = <<>>
    /\ daily_sync' =
          [daily_sync EXCEPT
              !.pc = IF daily_sync.configured = <<>> THEN "returned" ELSE "fetch",
              !.tenants = daily_sync.configured,
              !.results = <<>>,
              !.fetched = <<>>]
    /\ UNCHANGED <<store_vars, pager, client, hume_job, llm, parser, http, factory, bucket, sentiment>>

\* a worker takes a process_pending_calls message the daily sync queued and
\* runs the task (analysis.py lines 235-266) with the message's arguments
RunBatch ==
    /\ daily_sync.batches # <<>>
    /\ LET batch == Head(daily_sync.batches)
       IN  \E sel \in LimitedSelections(Selectable(PENDING, batch.tenant_id),
                                        batch.limit) :
              /\ Len(tasks) + Cardinality(sel) <= MaxPickups
              /\ tasks' = Enqueue(sel)
    /\ daily_sync' = [daily_sync EXCEPT !.batches = Tail(@)]
    /\ UNCHANGED <<call_records, analysis_results, emotion_data, blobs, sync_vars,
                   pager, client, hume_job, llm, parser, http, factory, bucket, sentiment>>

\* a call uploaded through the API (calls.py, upload_audio): PENDING with its
\* audio stored, of either tenant
UploadedCalls ==
    { call \in StoredCalls :
        call.analysis_status = PENDING /\ call.audio_file_path # NoPath }

BeatInit ==
    /\ sentiment = NoSentiment
    /\ bucket = NoBucket
    /\ factory = NoFactory
    /\ call_records \in { <<call>> : call \in UploadedCalls }
    /\ analysis_results = <<>>
    /\ emotion_data = <<>>
    /\ operators = <<>>
    /\ blobs = 1
    /\ tasks = <<>>
    /\ provider = <<>>
    /\ syncs = <<>>
    /\ pager = NoPager
    /\ client = NoClient
    /\ hume_job = NoJob
    /\ llm = NoAnalysisCall
    /\ parser = NoParse
    /\ http = NoRequest
    /\ \E configured \in SeqsUpTo(Tenants, Cardinality(Tenants)) :
          /\ \A i, j \in DOMAIN configured : configured[i] = configured[j] => i = j
          /\ daily_sync = [NoDailySync EXCEPT !.pc = "returned",
                                              !.configured = configured]

PipelineStep(t) ==
    \/ LoadCall(t)
    \/ SetProcessing(t)
    \/ DownloadAudio(t)
    \/ GatherResults(t)
    \/ RunLLMAnalysis(t)
    \/ SelectAnalysis(t)
    \/ InsertAnalysis(t)
    \/ CommitCompleted(t)
    \/ HandleFailure(t)

BeatNext ==
    \/ DailyBeat
    \/ DailyFetch
    \/ DailyEnqueue
    \/ RunBatch
    \/ \E t \in TaskIds : PipelineStep(t)

\* The beat and the workers run fairly: the beat keeps sending the daily
\* task, the provider answers a fetch that is tried again and again, every
\* queued message is taken and every started execution goes on.
BeatSpec ==
    /\ BeatInit
    /\ [][BeatNext]_vars
    /\ WF_vars(DailyBeat)
    /\ WF_vars(DailyFetch /\ daily_sync'.pc = "enqueue")
    /\ WF_vars(DailyEnqueue)
    /\ WF_vars(RunBatch)
    /\ \A t \in 1..MaxPickups : WF_vars(t \in TaskIds /\ PipelineStep(t))

\* ------------------------------ biztel.py: BiztelClientFactory and its users
\* Credentials are numbered: 0 is what a tenant starts with, update request u
\* stores the credentials u.
\* no BiztelClient object
NoCachedClient == [credentials |-> 0, serial |-> 0]

NoCaller ==
    [pc |-> "idle", tenant_id |-> NULL, credentials |-> 0, client |-> NoCachedClient]

\* BiztelClient(credentials): a new object, told apart by its serial number
NewClient(credentials, serial) == [credentials |-> credentials, serial |-> serial]

\* lines 321-324: cls._clients.pop(tenant_id, None)
clear_client(clients, tenant_id) == [clients EXCEPT ![tenant_id] = NoCachedClient]

\* settings.py lines 478-481: the request's session loads the tenant
UpdateLoad(tenant_id) ==
    /\ Len(factory.updates) < MaxUpdates
    /\ factory' = [factory EXCEPT
          !.updates = Append(@, [pc |-> "loaded", tenant_id |-> tenant_id,
                                 credentials |-> Len(factory.updates) + 1])]
    /\ UNCHANGED <<store_vars, pager, client, hume_job, llm, parser, daily_sync, http, bucket, sentiment>>

\* settings.py lines 489-497: the new values are assigned to the session's
\* object and the cached client is cleared; the commit is then awaited
UpdateClearClient(u) ==
    /\ u \in DOMAIN factory.updates
    /\ factory.updates[u].pc = "loaded"
    /\ factory' = [factory EXCEPT
          !.updates[u].pc = "commit",
          !.clients = clear_client(@, factory.updates[u].tenant_id)]
    /\ UNCHANGED <<store_vars, pager, client, hume_job, llm, parser, daily_sync, http, bucket, sentiment>>

\* settings.py line 499: the commit makes the new credentials visible
UpdateCommit(u) ==
    /\ u \in DOMAIN factory.updates
    /\ factory.updates[u].pc = "commit"
    /\ factory' = [factory EXCEPT
          !.updates[u].pc = "done",
          !.tenant_rows[factory.updates[u].tenant_id] = factory.updates[u].credentials]
    /\ UNCHANGED <<store_vars, pager, client, hume_job, llm, parser, daily_sync, http, bucket, sentiment>>

\* a user of the factory loads the tenant's committed credentials
\* ("credentials would be fetched from the database", biztel.py lines 327-337)
ReadCredentials(c, tenant_id) ==
    /\ factory.callers[c].pc \in {"idle", "got"}
    /\ factory' = [factory EXCEPT
          !.callers[c] = [pc |-> "read", tenant_id |-> tenant_id,
                          credentials |-> factory.tenant_rows[tenant_id],
                          client |-> NoCachedClient]]
    /\ UNCHANGED <<store_vars, pager, client, hume_job, llm, parser, daily_sync, http, bucket, sentiment>>

\* biztel.py lines 314-319 (called at line 343): get_client
get_client(c) ==
    /\ factory.callers[c].pc = "read"
    /\ LET tenant_id == factory.callers[c].tenant_id
           cached == factory.clients[tenant_id] # NoCachedClient
           clients == IF cached THEN factory.clients
                      ELSE [factory.clients EXCEPT ![tenant_id] =
                              NewClient(factory.callers[c].credentials,
                                        factory.created + 1)]
       IN  factory' = [factory EXCEPT
              !.clients = clients,
              !.created = IF cached THEN @ ELSE @ + 1,
              !.callers[c].pc = "got",
              !.callers[c].client = clients[tenant_id]]
    /\ UNCHANGED <<store_vars, pager, client, hume_job, llm, parser, daily_sync, http, bucket, sentiment>>

FactoryInit ==
    /\ sentiment = NoSentiment
    /\ bucket = NoBucket
    /\ call_records = <<>>
    /\ analysis_results = <<>>
    /\ emotion_data = <<>>
    /\ operators = <<>>
    /\ blobs = 0
    /\ tasks = <<>>
    /\ provider = <<>>
    /\ syncs = <<>>
    /\ pager = NoPager
    /\ client = NoClient
    /\ hume_job = NoJob
    /\ llm = NoAnalysisCall
    /\ parser = NoParse
    /\ daily_sync = NoDailySync
    /\ http = NoRequest
    /\ factory = [tenant_rows |-> [t \in Tenants |-> 0],
                  clients |-> [t \in Tenants |-> NoCachedClient],
                  created |-> 0,
                  updates |-> <<>>,
                  callers |-> [c \in 1..MaxGetters |-> NoCaller]]

FactoryNext ==
    \/ \E tenant_id \in Tenants : UpdateLoad(tenant_id)
    \/ \E u \in 1..MaxUpdates : UpdateClearClient(u)
    \/ \E u \in 1..MaxUpdates : UpdateCommit(u)
    \/ \E c \in 1..MaxGetters, tenant_id \in Tenants : ReadCredentials(c, tenant_id)
    \/ \E c \in 1..MaxGetters : get_client(c)

FactorySpec == FactoryInit /\ [][FactoryNext]_vars

\* --------------------------------- storage.py: cleanup_expired_files
\* A blob of the bucket: whether it exists, whether its name starts with the
\* scanned prefix "audio/", and its expires_at metadata if it has any.
BlobKinds ==
    { [exists |-> TRUE, under_prefix |-> up, has_expires_at |-> has,
       expires_at |-> IF has THEN e ELSE 0] :
      up \in BOOLEAN, has \in BOOLEAN, e \in 0..MaxNow }

\* a faulty variant: a blob is deleted from the moment of its expiry on
Expired_AtExpiry(blob, now) ==
    blob.has_expires_at /\ now >= blob.expires_at

\* lines 166-168: metadata with an expires_at that now has passed
Expired(blob, now) ==
    blob.has_expires_at /\ now > blob.expires_at

\* lines 161-162: deleted_count = 0, now = utcnow()
StartCleanup ==
    /\ Len(bucket.runs) < MaxCleanups
    /\ bucket' = [bucket EXCEPT
          !.runs = Append(@, [pc |-> "list", now |-> bucket.clock,
                              listing |-> <<>>, deleted_count |-> 0,
                              deleted |-> {}, listed |-> {}])]
    /\ UNCHANGED <<store_vars, pager, client, hume_job, llm, parser, daily_sync,
                   http, factory, sentiment>>

\* line 164: list_blobs(bucket, prefix): the existing blobs under the prefix,
\* each with its metadata, in name order
ListBlobs(r) ==
    /\ r \in DOMAIN bucket.runs
    /\ bucket.runs[r].pc = "list"
    /\ LET listed == { b \in DOMAIN bucket.objects :
                          bucket.objects[b].exists /\ bucket.objects[b].under_prefix }
       IN  bucket' = [bucket EXCEPT
              !.runs[r].pc = "loop",
              !.runs[r].listing = SortedSeq(listed),
              !.runs[r].listed = listed]
    /\ UNCHANGED <<store_vars, pager, client, hume_job, llm, parser, daily_sync,
                   http, factory, sentiment>>

\* lines 165-170: one pass of the loop; blob.delete() raises NotFound when the
\* blob no longer exists
VisitBlob(r) ==
    /\ r \in DOMAIN bucket.runs
    /\ bucket.runs[r].pc = "loop"
    /\ bucket.runs[r].listing # <<>>
    /\ LET b == Head(bucket.runs[r].listing)
       IN  bucket' =
             IF ~Expired(bucket.objects[b], bucket.runs[r].now)
             THEN [bucket EXCEPT !.runs[r].listing = Tail(@)]
             ELSE IF ~bucket.objects[b].exists
             THEN [bucket EXCEPT !.runs[r].pc = "NotFound"]
             ELSE [bucket EXCEPT
                     !.objects[b].exists = FALSE,
                     !.runs[r].listing = Tail(@),
                     !.runs[r].deleted_count = @ + 1,
                     !.runs[r].deleted = @ \cup {b}]
    /\ UNCHANGED <<store_vars, pager, client, hume_job, llm, parser, daily_sync,
                   http, factory, sentiment>>

\* line 172: return deleted_count
ReturnDeleted(r) ==
    /\ r \in DOMAIN bucket.runs
    /\ bucket.runs[r].pc = "loop"
    /\ bucket.runs[r].listing = <<>>
    /\ bucket' = [bucket EXCEPT !.runs[r].pc = "returned"]
    /\ UNCHANGED <<store_vars, pager, client, hume_job, llm, parser, daily_sync,
                   http, factory, sentiment>>

\* time passes
ClockTick ==
    /\ bucket.clock < MaxNow
    /\ bucket' = [bucket EXCEPT !.clock = @ + 1]
    /\ UNCHANGED <<store_vars, pager, client, hume_job, llm, parser, daily_sync,
                   http, factory, sentiment>>

CleanupInit ==
    /\ sentiment = NoSentiment
    /\ call_records = <<>>
    /\ analysis_results = <<>>
    /\ emotion_data = <<>>
    /\ operators = <<>>
    /\ blobs = 0
    /\ tasks = <<>>
    /\ provider = <<>>
    /\ syncs = <<>>
    /\ pager = NoPager
    /\ client = NoClient
    /\ hume_job = NoJob
    /\ llm = NoAnalysisCall
    /\ parser = NoParse
    /\ daily_sync = NoDailySync
    /\ http = NoRequest
    /\ factory = NoFactory
    /\ \E objects \in [1..MaxBlobs -> BlobKinds] :
          bucket = [clock |-> 0, objects |-> objects, runs |-> <<>>]

NoCleanupRunning ==
    \A r \in DOMAIN bucket.runs : bucket.runs[r].pc \in {"returned", "NotFound"}

\* cleanup runs one after the other (the beat sends one every six hours)
CleanupNext ==
    \/ NoCleanupRunning /\ StartCleanup
    \/ \E r \in 1..MaxCleanups : ListBlobs(r)
    \/ \E r \in 1..MaxCleanups : VisitBlob(r)
    \/ \E r \in 1..MaxCleanups : ReturnDeleted(r)
    \/ ClockTick

CleanupSpec == CleanupInit /\ [][CleanupNext]_vars

\* cleanup runs that may overlap
OverlapNext ==
    \/ StartCleanup
    \/ \E r \in 1..MaxCleanups : ListBlobs(r)
    \/ \E r \in 1..MaxCleanups : VisitBlob(r)
    \/ \E r \in 1..MaxCleanups : ReturnDeleted(r)
    \/ ClockTick

OverlapSpec == CleanupInit /\ [][OverlapNext]_vars

\* ------------- the syncs of the tenants and the pipeline over their calls
\* a worker runs process_pending_calls(tenant_id, limit=1) (analysis.py
\* lines 235-266)
PickPending(tenant_id) ==
    /\ Len(tasks) < MaxPickups
    /\ process_pending_calls(tenant_id, 1)

\* the admins of both tenants sync the same provider history while workers
\* analyse the calls the syncs committed
IsolationNext ==
    \/ \E tenant \in Tenants : sync_biztel_data(tenant)
    \/ \E s \in SyncIds : get_call_history_paginated(s)
    \/ \E s \in SyncIds : SyncRecord(s)
    \/ \E s \in SyncIds : SyncCommit(s)
    \/ \E tenant \in Tenants : PickPending(tenant)
    \/ \E t \in TaskIds : PipelineStep(t)

\* the history both tenants' credentials return: every entry names the
\* provider's operator, so both tenants resolve the same provider operator id
SharedHistory ==
    { record \in CallHistoryRecords :
        record.account_id # NULL /\ record.account_name # NULL }

IsolationInit ==
    /\ sentiment = NoSentiment
    /\ bucket = NoBucket
    /\ factory = NoFactory
    /\ http = NoRequest
    /\ daily_sync = NoDailySync
    /\ parser = NoParse
    /\ call_records = <<>>
    /\ analysis_results = <<>>
    /\ emotion_data = <<>>
    /\ operators = <<>>
    /\ blobs = 0
    /\ tasks = <<>>
    /\ provider \in SeqsUpTo(SharedHistory, MaxRecords)
    /\ syncs = <<>>
    /\ pager = NoPager
    /\ client = NoClient
    /\ hume_job = NoJob
    /\ llm = NoAnalysisCall

IsolationSpec == IsolationInit /\ [][IsolationNext]_vars

\* ------------------------------------------------------------------ claims
StatusOf(c) == call_records[c].analysis_status

AnalysisRowsOf(rows, c) == { i \in 1..Len(rows) : rows[i].call_record_id = c }

EmotionRowsOf(rows, a) == SelectSeq(rows, LAMBDA r : r.analysis_id = a)

\* an execution of task t ends in this step (it returns, raises, or retries)
Ends(t) ==
    /\ tasks[t].pc \notin {"queued", "done"}
    /\ tasks'[t].pc \in {"queued", "done"}

\* ---------------------------------- hume.py: calculate_sentiment_score
\* Average scores are counted in a fixed unit (Hume's scores are never
\* negative); the sums and the quotient are exact, the quotient kept as
\* numerator and denominator.
MaxScore == 2

positive_emotions ==
    {"calmness", "contentment", "excitement", "interest",
     "joy", "satisfaction", "surprise_positive"}

negative_emotions ==
    {"anger", "anxiety", "confusion", "disappointment",
     "distress", "fear", "frustration", "sadness", "surprise_negative"}

\* the keys result.average_emotions may hold: some of each list and one of
\* neither
EmotionKeys == {"joy", "calmness", "anger", "sadness", "boredom"}

AverageEmotions ==
    UNION { [keys -> 0..MaxScore] : keys \in SUBSET EmotionKeys }

\* result.average_emotions.get(e, 0.0)
GetScore(average_emotions, e) ==
    IF e \in DOMAIN average_emotions THEN average_emotions[e] ELSE 0

\* sum(result.average_emotions.get(e, 0.0) for e in emotions)
RECURSIVE SumScores(_, _)
SumScores(average_emotions, emotions) ==
    IF emotions = {} THEN 0
    ELSE LET e == CHOOSE x \in emotions : TRUE
         IN  GetScore(average_emotions, e)
                + SumScores(average_emotions, emotions \ {e})

\* a faulty variant: no early return, the division runs for every total
calculate_sentiment_score_Unguarded(average_emotions) ==
    LET positive_sum == SumScores(average_emotions, positive_emotions)
        negative_sum == SumScores(average_emotions, negative_emotions)
        total == positive_sum + negative_sum
    IN  IF total = 0
        THEN [outcome |-> "ZeroDivisionError", num |-> 0, den |-> 1,
              divided |-> TRUE]
        ELSE [outcome |-> "returned", num |-> positive_sum - negative_sum,
              den |-> total, divided |-> TRUE]

\* lines 261-291: the value returned is num / den
calculate_sentiment_score(average_emotions) ==
    LET positive_sum == SumScores(average_emotions, positive_emotions)
        negative_sum == SumScores(average_emotions, negative_emotions)
        total == positive_sum + negative_sum
    IN  IF total = 0
        THEN [outcome |-> "returned", num |-> 0, den |-> 1, divided |-> FALSE]
        ELSE [outcome |-> "returned", num |-> positive_sum - negative_sum,
              den |-> total, divided |-> TRUE]

ScoreSentiment ==
    /\ sentiment.pc = "called"
    /\ LET r == calculate_sentiment_score(sentiment.average_emotions)
       IN  sentiment' = [sentiment EXCEPT
                !.pc = "done", !.outcome = r.outcome,
                !.num = r.num, !.den = r.den, !.divided = r.divided]
    /\ UNCHANGED <<store_vars, pager, client, hume_job, llm, parser, daily_sync,
                   http, factory, bucket>>

SentimentInit ==
    /\ bucket = NoBucket
    /\ factory = NoFactory
    /\ http = NoRequest
    /\ daily_sync = NoDailySync
    /\ parser = NoParse
    /\ call_records = <<>>
    /\ analysis_results = <<>>
    /\ emotion_data = <<>>
    /\ operators = <<>>
    /\ blobs = 0
    /\ tasks = <<>>
    /\ provider = <<>>
    /\ syncs = <<>>
    /\ pager = NoPager
    /\ client = NoClient
    /\ hume_job = NoJob
    /\ llm = NoAnalysisCall
    /\ \E average_emotions \in AverageEmotions :
          sentiment = [NoSentiment EXCEPT
                !.pc = "called", !.average_emotions = average_emotions]

SentimentNext == ScoreSentiment

SentimentSpec == SentimentInit /\ [][SentimentNext]_vars


\* ------------------------------- settings.py: syncs over an existing store
\* A store earlier syncs and pipeline runs left behind: one call per row, in
\* any status, with or without a stored recording, not yet linked to an
\* operator; the analysed calls have their rows in the other two tables.
SyncedCalls ==
    { [tenant_id |-> tenant,
       request_id |-> request_id,
       operator_id |-> NoOperator,
       operation_flow_id |-> NULL,
       inquiry_category |-> NULL,
       audio_file_path |-> path,
       analysis_status |-> status] :
      tenant \in Tenants, request_id \in RequestIds, path \in {NoPath, 1},
      status \in AnalysisStatus }

ResyncInit ==
    /\ sentiment = NoSentiment
    /\ bucket = NoBucket
    /\ factory = NoFactory
    /\ http = NoRequest
    /\ daily_sync = NoDailySync
    /\ parser = NoParse
    /\ operators = <<>>
    /\ tasks = <<>>
    /\ syncs = <<>>
    /\ pager = NoPager
    /\ client = NoClient
    /\ hume_job = NoJob
    /\ llm = NoAnalysisCall
    /\ \E call \in SyncedCalls : call_records = <<call>>
    /\ analysis_results \in AnalysisTables(call_records)
    /\ emotion_data \in EmotionTables(analysis_results)
    /\ blobs = 1
    /\ provider \in SeqsUpTo(SharedHistory, MaxRecords)

ResyncSpec == ResyncInit /\ [][SyncNext]_vars


\* ---------------------------- settings.py: the response of one sync request
error_limit == 20
MaxLongHistory == 21

\* a faulty variant: every error is returned
BiztelSyncResponse_AllErrors(run) ==
    [total_records |-> run.total_records,
     new_records |-> run.new_records,
     updated_records |-> run.updated_records,
     recordings_downloaded |-> run.recordings_downloaded,
     errors |-> run.errors]

\* lines 699-705: the counts, and len(errors[:20]) for the error list
BiztelSyncResponse(run) ==
    [total_records |-> run.total_records,
     new_records |-> run.new_records,
     updated_records |-> run.updated_records,
     recordings_downloaded |-> run.recordings_downloaded,
     errors |-> Min(run.errors, error_limit)]

\* a long history: the provider reports one recorded call many times over
RepeatedRecord ==
    [request_id |-> "r1", account_id |-> "op1", account_name |-> "Sato",
     has_recording |-> TRUE]

LongHistories ==
    { [i \in 1..n |-> RepeatedRecord] : n \in (MaxRecords + 1)..MaxLongHistory }

\* the call_records the request finds: none, the call of the repeated
\* record, or that call twice (what overlapping requests leave behind)
FoundCalls ==
    LET row == [tenant_id |-> "tA", request_id |-> "r1",
                operator_id |-> NoOperator, operation_flow_id |-> NULL,
                inquiry_category |-> NULL, audio_file_path |-> NoPath,
                analysis_status |-> PENDING]
    IN  { <<>>, <<row>>, <<row, row>> }

\* one request, alone
SingleSync(tenant_id) ==
    /\ syncs = <<>>
    /\ sync_biztel_data(tenant_id)

ResponseInit ==
    /\ sentiment = NoSentiment
    /\ bucket = NoBucket
    /\ factory = NoFactory
    /\ http = NoRequest
    /\ daily_sync = NoDailySync
    /\ parser = NoParse
    /\ analysis_results = <<>>
    /\ emotion_data = <<>>
    /\ operators = <<>>
    /\ blobs = 0
    /\ tasks = <<>>
    /\ syncs = <<>>
    /\ pager = NoPager
    /\ client = NoClient
    /\ hume_job = NoJob
    /\ llm = NoAnalysisCall
    /\ call_records \in FoundCalls
    /\ provider \in SeqsUpTo(CallHistoryRecords, MaxRecords) \cup LongHistories

ResponseNext ==
    \/ \E tenant \in Tenants : SingleSync(tenant)
    \/ \E s \in SyncIds : get_call_history_paginated(s)
    \/ \E s \in SyncIds : SyncRecord(s)
    \/ \E s \in SyncIds : SyncCommit(s)

ResponseSpec == ResponseInit /\ [][ResponseNext]_vars


\* --------------------- storage.py: the recordings of calls and their TTL
\* The clock counts days.
ttl_days == 7
MaxDays == 8

\* calls.py, upload_audio with storage.py lines 45-89: the recording is
\* stored under the audio prefix with expires_at = utcnow() + ttl_days, and
\* the new call keeps the blob's path
upload_audio_file(tenant) ==
    /\ Len(call_records) < MaxCalls
    /\ bucket' = [bucket EXCEPT
          !.objects = Append(@,
                [exists |-> TRUE, under_prefix |-> TRUE,
                 has_expires_at |-> TRUE,
                 expires_at |-> bucket.clock + ttl_days])]
    /\ call_records' = Append(call_records,
          [tenant_id |-> tenant,
           request_id |-> NULL,
           operator_id |-> NoOperator,
           operation_flow_id |-> NULL,
           inquiry_category |-> NULL,
           audio_file_path |-> Len(bucket.objects) + 1,
           analysis_status |-> PENDING])
    /\ blobs' = blobs + 1
    /\ UNCHANGED <<pipeline_vars, sync_vars, pager, client, hume_job, llm,
                   parser, daily_sync, http, factory, sentiment>>

\* a day passes
DayPasses ==
    /\ bucket.clock < MaxDays
    /\ bucket' = [bucket EXCEPT !.clock = @ + 1]
    /\ UNCHANGED <<store_vars, pager, client, hume_job, llm, parser, daily_sync,
                   http, factory, sentiment>>

\* an empty bucket and an empty database on day 0
RetentionInit ==
    /\ sentiment = NoSentiment
    /\ bucket = NoBucket
    /\ factory = NoFactory
    /\ http = NoRequest
    /\ daily_sync = NoDailySync
    /\ parser = NoParse
    /\ call_records = <<>>
    /\ analysis_results = <<>>
    /\ emotion_data = <<>>
    /\ operators = <<>>
    /\ blobs = 0
    /\ tasks = <<>>
    /\ provider = <<>>
    /\ syncs = <<>>
    /\ pager = NoPager
    /\ client = NoClient
    /\ hume_job = NoJob
    /\ llm = NoAnalysisCall

\* uploads through the API, the days, and the beat's cleanup every 6 hours
RetentionNext ==
    \/ \E tenant \in Tenants : upload_audio_file(tenant)
    \/ DayPasses
    \/ NoCleanupRunning /\ StartCleanup
    \/ \E r \in 1..MaxCleanups : ListBlobs(r)
    \/ \E r \in 1..MaxCleanups : VisitBlob(r)
    \/ \E r \in 1..MaxCleanups : ReturnDeleted(r)

RetentionSpec == RetentionInit /\ [][RetentionNext]_vars


\* C1: every execution that picked the call up ends with the call COMPLETED
\* when every step succeeded and FAILED when a step raised; none ends leaving
\* the call in PROCESSING.
C1_ExecutionEndsCompletedOrFailed ==
    [][\A t \in TaskIds :
        LET c == tasks[t].call_record_id
        IN  /\ (Ends(t) /\ tasks[t].pc = "commit")
                  => call_records'[c].analysis_status = COMPLETED
            /\ (Ends(t) /\ tasks[t].pc = "except")
                  => call_records'[c].analysis_status = FAILED]_vars

C3_TranscriptionFailureFatal ==
    [][\A t \in TaskIds :
        LET c == tasks[t].call_record_id
        IN  /\ (tasks[t].pc = "gather"
                    /\ tasks'[t].transcription_result.state = "exception")
                  => /\ tasks'[t].pc = "except"
                     /\ tasks'[t].raised = "gather"
                     /\ analysis_results' = analysis_results
                     /\ emotion_data' = emotion_data
            /\ (Ends(t) /\ tasks[t].pc = "except" /\ tasks[t].raised = "gather")
                  => /\ call_records'[c].analysis_status = FAILED
                     /\ analysis_results' = analysis_results
                     /\ emotion_data' = emotion_data]_vars

C3_Witness ==
    \E t \in TaskIds :
        /\ tasks[t].result = "failed"
        /\ tasks[t].raised = "gather"
        /\ tasks[t].transcription_result.state = "exception"
        /\ tasks[t].emotion_result.state = "ok"
        /\ StatusOf(tasks[t].call_record_id) = FAILED
        /\ analysis_results = <<>>
        /\ emotion_data = <<>>

\* C4: no call ever has two AnalysisResult rows, also when executions for
\* the same call interleave.
C4_OneAnalysisPerCall ==
    \A c \in CallIds : Cardinality(AnalysisRowsOf(analysis_results, c)) <= 1

\* two executions for one call both completed: one row, updated in place
C4_Witness ==
    \E t, u \in TaskIds :
        /\ t # u
        /\ tasks[t].call_record_id = tasks[u].call_record_id
        /\ tasks[t].result = "completed"
        /\ tasks[u].result = "completed"
        /\ Cardinality(AnalysisRowsOf(analysis_results, tasks[t].call_record_id)) = 1

\* C5: after a successful run that produced emotion predictions, the
\* emotion_data rows of the call's AnalysisResult are exactly that run's
\* predictions.
C5_EmotionRowsReplaced ==
    [][\A t \in TaskIds :
        (Ends(t) /\ tasks[t].pc = "commit"
            /\ tasks[t].emotion_result.state = "ok"
            /\ tasks[t].emotion_result.predictions # <<>>)
          => \A a \in AnalysisRowsOf(analysis_results', tasks[t].call_record_id) :
                [i \in 1..Len(EmotionRowsOf(emotion_data', a)) |->
                    EmotionRowsOf(emotion_data', a)[i].emotion_type]
                = tasks[t].emotion_result.predictions]_vars

\* C8: analysis_status becomes PROCESSING only from PENDING.
C8_ProcessingOnlyFromPending ==
    [][\A c \in CallIds :
        (call_records'[c].analysis_status = PROCESSING
            /\ call_records[c].analysis_status # PROCESSING)
          => call_records[c].analysis_status = PENDING]_vars

\* C9: the status is not FAILED while an automatic retry of a task for the
\* call is still scheduled.
C9_NotFailedWhileRetryScheduled ==
    \A t \in TaskIds :
        (tasks[t].pc = "queued" /\ tasks[t].retries > 0)
          => StatusOf(tasks[t].call_record_id) # FAILED

\* C10: a task is retried at most max_retries times, and when an execution
\* that failed is not retried the task has used all its retries and leaves
\* the call FAILED.
C10_RetriesBoundedThenFailed ==
    [][\A t \in TaskIds :
        /\ tasks'[t].retries <= max_retries
        /\ (Ends(t) /\ tasks[t].pc = "except" /\ tasks'[t].pc = "done")
              => /\ tasks[t].retries = max_retries
                 /\ call_records'[tasks[t].call_record_id].analysis_status = FAILED]_vars

\* the sync requests so far ran one after the other: of any two, one had
\* returned before the other began
Sequential ==
    \A p, q \in SyncIds :
        p # q => (p \in syncs[q].after \/ q \in syncs[p].after)

DuplicateCalls ==
    { pair \in CallIds \X CallIds :
        /\ pair[1] < pair[2]
        /\ call_records[pair[1]].request_id # NULL
        /\ call_records[pair[1]].tenant_id = call_records[pair[2]].tenant_id
        /\ call_records[pair[1]].request_id = call_records[pair[2]].request_id }

\* C6: when the sync requests run one after the other over the same provider
\* data, a request of a tenant that follows a committed request of that tenant
\* reports new_records = 0 and updated_records = total_records, and no two
\* calls of one tenant share a request_id.
C6_ResyncUpdatesOnly ==
    Sequential =>
        /\ DuplicateCalls = {}
        /\ \A s \in SyncIds :
            (/\ syncs[s].committed
             /\ \E p \in syncs[s].after :
                    /\ syncs[p].committed
                    /\ syncs[p].tenant_id = syncs[s].tenant_id)
              => /\ syncs[s].new_records = 0
                 /\ syncs[s].updated_records = syncs[s].total_records

C6_Witness ==
    /\ Sequential
    /\ \E s, p \in SyncIds :
        /\ p \in syncs[s].after
        /\ syncs[p].committed /\ syncs[s].committed
        /\ syncs[p].tenant_id = syncs[s].tenant_id
        /\ syncs[p].new_records > 0
        /\ syncs[s].total_records = MaxRecords
        /\ syncs[s].updated_records = MaxRecords
        /\ Len(call_records) = syncs[p].new_records

\* C7: no two calls of one tenant ever share a request_id, also when sync
\* requests of the tenant overlap.
C7_RequestIdUniquePerTenant ==
    DuplicateCalls = {}

\* C11: a paginated fetch that returns has accumulated every record of the
\* range exactly once, in time order, whatever the data, records sharing the
\* start time at which a full page ends included.
C11_PaginationComplete ==
    pager.pc = "done" => pager.all_records = pager.data

\* caller c's request goes out in this step
Sends(c) ==
    /\ client.callers[c].pc \in {"rate_limit", "sleeping"}
    /\ client'.callers[c].pc = "awaiting"

\* caller c's request is answered (or times out) in this step
Answered(c) ==
    /\ client.callers[c].pc = "awaiting"
    /\ client'.callers[c].pc # "awaiting"

\* only one caller has used the client
SingleCaller ==
    Cardinality({ c \in CallerIds : client.callers[c].calls > 0 }) <= 1

\* C12: with a single caller issuing requests back to back, a request goes
\* out only when at least the delay has passed since the previous one went
\* out (so N requests take at least (N-1) times the delay).
C12_SingleCallerSpacing ==
    [][\A c \in CallerIds :
        (SingleCaller /\ Sends(c)) => client.since_sent >= rate_limit_delay]_vars

C12_Witness ==
    /\ SingleCaller
    /\ \E c \in CallerIds :
        /\ client.callers[c].calls = MaxRequests
        /\ client.callers[c].pc = "awaiting"
        /\ client.since_sent = 0

\* C13: whatever the number of callers and their interleaving, a request of
\* the client goes out only when at least the delay has passed since the
\* previous one went out.
C13_ConcurrentCallersSpacing ==
    [][\A c \in CallerIds :
        Sends(c) => client.since_sent >= rate_limit_delay]_vars

\* C14: a call makes at most stop_after_attempt attempts; an attempt is
\* followed by another one only after a timeout or a 429, and only after a
\* wait of 2^(attempt-1) seconds; a timeout or 429 at the last attempt ends
\* the call with an error.
C14_RetryOnlyTimeoutOr429 ==
    [][\A c \in CallerIds :
        LET old == client.callers[c]
            new == client'.callers[c]
        IN  /\ new.attempt <= stop_after_attempt
            /\ (Answered(c) /\ new.pc = "backoff")
                  => /\ new.response \in {TIMEOUT, 429}
                     /\ old.attempt < stop_after_attempt
                     /\ new.remaining = 2 ^ (old.attempt - 1) * TicksPerSecond
            /\ (Answered(c) /\ new.response \in {TIMEOUT, 429}
                    /\ old.attempt = stop_after_attempt)
                  => /\ new.pc = "raised"
                     /\ new.result = "RetryError"
            /\ (old.pc = "backoff" /\ new.pc # "backoff")
                  => /\ old.remaining = 0
                     /\ new.attempt = old.attempt + 1]_vars

C14_Witness ==
    \E c \in CallerIds :
        /\ client.callers[c].pc = "raised"
        /\ client.callers[c].result = "RetryError"
        /\ client.callers[c].attempt = stop_after_attempt

\* C15: a 401 raises the authentication error and a 404 the not-found error
\* at the attempt that received it, with nothing sent afterwards for that
\* call; a 5xx raises the generic API error for that status.
C15_StatusClassification ==
    [][\A c \in CallerIds :
        LET old == client.callers[c]
            new == client'.callers[c]
        IN  /\ (Answered(c) /\ new.response = 401)
                  => /\ new.pc = "raised" /\ new.result = "BiztelAuthError"
                     /\ new.attempt = old.attempt
            /\ (Answered(c) /\ new.response = 404)
                  => /\ new.pc = "raised" /\ new.result = "BiztelNotFoundError"
                     /\ new.attempt = old.attempt
            /\ (Answered(c) /\ new.response >= 500)
                  => /\ new.pc = "raised" /\ new.result = "BiztelAPIError"
            /\ (old.pc = "raised" /\ new # old) => new.calls = old.calls + 1]_vars

C15_Witness ==
    \E c, d \in CallerIds :
        /\ client.callers[c].result = "BiztelAuthError"
        /\ client.callers[c].attempt = 1
        /\ client.callers[d].result = "BiztelNotFoundError"
        /\ client.callers[d].attempt = 1

\* C16 as claimed: a 5xx response at an attempt before the last is followed
\* by another attempt.
C16_ServerErrorRetried ==
    [][\A c \in CallerIds :
        (Answered(c) /\ client'.callers[c].response >= 500
            /\ client.callers[c].attempt < stop_after_attempt)
          => client'.callers[c].pc = "backoff"]_vars

\* C16 as amended: a 5xx response is never followed by another attempt: the
\* call raises the generic API error at once; only a timeout or a 429 is.
C16_ServerErrorNotRetried ==
    [][\A c \in CallerIds :
        /\ (Answered(c) /\ client'.callers[c].response >= 500)
              => /\ client'.callers[c].pc = "raised"
                 /\ client'.callers[c].result = "BiztelAPIError"
        /\ (Answered(c) /\ client'.callers[c].pc = "backoff")
              => client'.callers[c].response < 500]_vars

C16_Witness ==
    \E c \in CallerIds :
        /\ client.callers[c].pc = "raised"
        /\ client.callers[c].result = "BiztelAPIError"
        /\ client.callers[c].response = 503
        /\ client.callers[c].attempt = 2

\* the CallRecord of request_id in the session of run: its audio paths
SessionAudioPaths(run, request_id) ==
    { run.new_calls[j].audio_file_path :
        j \in { x \in 1..Len(run.new_calls) :
                    run.new_calls[x].request_id = request_id } }
    \cup
    { e.obj.audio_file_path :
        e \in { x \in run.loaded_calls :
                    call_records[x.id].request_id = request_id } }

\* C17: when the download or upload of a record's recording fails, the sync
\* goes on: one error is recorded, the record's CallRecord is still created
\* or updated in the session with a null audio path, and the loop moves to
\* the next record (or to the commit after the last one); every pass of the
\* loop moves one record forward.
C17_RecordingFailureIsolated ==
    [][\A s \in SyncIds :
        LET old == syncs[s]
            new == syncs'[s]
        IN  (old.pc = "records" /\ new # old)
              => /\ new.i = old.i + 1
                 /\ new.pc = IF old.i = Len(old.history_records)
                             THEN "commit" ELSE "records"
                 /\ new.recording = "failed"
                      => /\ new.errors = old.errors + 1
                         /\ new.new_records + new.updated_records
                              = old.new_records + old.updated_records + 1
                         /\ SessionAudioPaths(new,
                                old.history_records[old.i].request_id) = {NoPath}]_vars

\* the first record's recording failed, the second one's was stored, and
\* both calls were committed
C17_Witness ==
    /\ Len(syncs) = 1
    /\ syncs[1].committed
    /\ syncs[1].errors = 1
    /\ syncs[1].new_records = 2
    /\ syncs[1].recordings_downloaded = 1
    /\ Len(call_records) = 2
    /\ provider[1].has_recording
    /\ call_records[1].audio_file_path = NoPath
    /\ call_records[2].audio_file_path # NoPath

DistinctRequestIds(records) ==
    \A i, j \in 1..Len(records) :
        i # j => records[i].request_id # records[j].request_id

\* C18: a sync that commits into a store with no call, over history entries
\* with distinct request ids, creates one CallRecord per entry, in order,
\* each PENDING; the audio path is null when the entry's recording flag is
\* off, and when the flag is on it is non-null unless the download or upload
\* failed (then an error is reported).
C18_FirstSyncCreatesPending ==
    [][\A s \in SyncIds :
        LET run == syncs[s]
            entries == run.history_records
        IN  (/\ run.pc = "commit" /\ syncs'[s].pc = "done"
             /\ call_records = <<>>
             /\ DistinctRequestIds(entries))
              => /\ Len(call_records') = Len(entries)
                 /\ run.new_records = Len(entries)
                 /\ run.updated_records = 0
                 /\ \A k \in 1..Len(entries) :
                      /\ call_records'[k].request_id = entries[k].request_id
                      /\ call_records'[k].tenant_id = run.tenant_id
                      /\ call_records'[k].analysis_status = PENDING
                      /\ ~entries[k].has_recording
                            => call_records'[k].audio_file_path = NoPath
                      /\ call_records'[k].audio_file_path # NoPath
                            => entries[k].has_recording
                      /\ (entries[k].has_recording
                            /\ call_records'[k].audio_file_path = NoPath)
                            => run.errors > 0
                 /\ Cardinality({ k \in 1..Len(entries) :
                        call_records'[k].audio_file_path # NoPath })
                      = run.recordings_downloaded]_vars

C18_Witness ==
    /\ Len(syncs) = 1
    /\ syncs[1].committed
    /\ syncs[1].new_records = 2
    /\ syncs[1].errors = 0
    /\ Len(call_records) = 2
    /\ provider[1].has_recording /\ ~provider[2].has_recording
    /\ call_records[1].audio_file_path # NoPath
    /\ call_records[2].audio_file_path = NoPath
    /\ \A k \in CallIds : call_records[k].analysis_status = PENDING

\* the job is polled at most max_wait_seconds / poll_interval times, the
\* waited time grows by poll_interval per poll, predictions are returned only
\* after the status COMPLETED was observed, the status FAILED makes the call
\* raise, and the call goes on waiting only while the waited time is below
\* the maximum: once it reaches it the call has raised the timeout.
PollingBounded ==
    /\ hume_job.polls <= max_wait_seconds \div poll_interval
    /\ hume_job.pc \in {"poll", "predictions", "sleep", "returned", "raised"}
    /\ hume_job.pc = "poll" => hume_job.elapsed = hume_job.polls * poll_interval
    /\ hume_job.pc = "sleep" => hume_job.elapsed = (hume_job.polls - 1) * poll_interval
    /\ hume_job.pc = "returned" => hume_job.status = "COMPLETED"
    /\ hume_job.status = "FAILED"
          => hume_job.pc = "raised" /\ hume_job.result = "Exception"
    /\ hume_job.pc \in {"poll", "predictions", "sleep"}
          => hume_job.elapsed < max_wait_seconds
    /\ hume_job.elapsed >= max_wait_seconds
          => hume_job.pc = "raised" /\ hume_job.result = "TimeoutError"

\* C19: every call of _wait_for_job ends, by returning or by raising, and
\* until then it stays within the polling bounds above.
C19_PollingEnds ==
    /\ []PollingBounded
    /\ <>(hume_job.pc \in {"returned", "raised"})

C19_Witness ==
    /\ hume_job.pc = "raised"
    /\ hume_job.result = "TimeoutError"
    /\ hume_job.polls = max_wait_seconds \div poll_interval
    /\ hume_job.elapsed = max_wait_seconds

Ran(analysis) == \E i \in DOMAIN llm.calls : llm.calls[i] = analysis

Raised(analysis) ==
    /\ llm.pc = "raised"
    /\ llm.calls[Len(llm.calls)] = analysis

OrderIndex(analysis) == CHOOSE i \in DOMAIN AnalysisOrder : AnalysisOrder[i] = analysis

\* the flow the compliance check is due for: the preselected one, or the one
\* whose id the classification returned, if it is in the supplied list
ResolvedFlows ==
    IF llm.preselected_flow # NoFlow THEN {llm.preselected_flow}
    ELSE { f \in llm.available_flows : llm.flow_id # NULL /\ f.id = llm.flow_id }

InvocationEnded == llm.pc \in {"returned", "raised"}

\* the conditions and the order of the sub-analyses, for as far as the
\* invocation got: an analysis that raised ends it
GuardsAndOrder ==
    InvocationEnded =>
        /\ Ran("classify_flow")
              <=> (llm.available_flows # {} /\ llm.preselected_flow = NoFlow)
        /\ ~Raised("classify_flow") =>
              (Ran("check_flow_compliance")
                  <=> \E f \in ResolvedFlows :
                         f.flow_definition \notin {NULL, "empty"})
        /\ \A i, j \in DOMAIN llm.calls :
              i < j => OrderIndex(llm.calls[i]) < OrderIndex(llm.calls[j])
        /\ llm.pc = "returned" =>
              /\ Ran("calculate_quality_score")
              /\ Ran("summarize_call")
              /\ Ran("analyze_fillers")

\* C20: in every invocation of full_analysis the classification runs exactly
\* when flows are supplied and none is preselected, the compliance check runs
\* exactly when a flow with a non-empty definition is resolved and only after
\* the classification, and quality scoring, summarization and filler analysis
\* have run.
C20_FullAnalysisOrder ==
    InvocationEnded =>
        /\ Ran("classify_flow")
              <=> (llm.available_flows # {} /\ llm.preselected_flow = NoFlow)
        /\ Ran("check_flow_compliance")
              <=> \E f \in ResolvedFlows :
                     f.flow_definition \notin {NULL, "empty"}
        /\ \A i, j \in DOMAIN llm.calls :
              i < j => OrderIndex(llm.calls[i]) < OrderIndex(llm.calls[j])
        /\ Ran("calculate_quality_score")
        /\ Ran("summarize_call")
        /\ Ran("analyze_fillers")

\* C21: the extractor returns the result of the first of the three
\* strategies (fenced block, whole response, object embedded in prose) that
\* parses, and raises its own parse error, carrying the truncated response,
\* exactly when none of the three parses.
C21_FirstParsingStrategyWins ==
    parser.pc = "done" =>
        LET response == parser.response
            fenced   == FenceMatches(response) /\ Loads(FenceGroup(response))
            whole    == Loads(response)
            embedded == BraceMatches(response) /\ Loads(BraceGroup(response))
        IN  /\ fenced => parser.outcome = "returned"
                         /\ parser.value = FenceGroup(response)
            /\ ~fenced /\ whole => parser.outcome = "returned"
                                   /\ parser.value = response
            /\ ~fenced /\ ~whole /\ embedded
                  => parser.outcome = "returned"
                     /\ parser.value = BraceGroup(response)
            /\ ~fenced /\ ~whole /\ ~embedded
                  => parser.outcome = "ValueError"
                     /\ parser.value = Truncated(response)

\* the call ids of the messages a step adds to the queue, in queue order
NewlyQueued ==
    [i \in 1..(Len(tasks') - Len(tasks)) |-> tasks'[Len(tasks) + i].call_record_id]

NewlyQueuedOnce == \A i, j \in DOMAIN NewlyQueued : NewlyQueued[i] = NewlyQueued[j] => i = j

\* C22: an invocation of process_pending_calls enqueues only calls that are
\* PENDING with a stored audio path, only of the given tenant when one is
\* given, at most limit of them, each once, and changes no call.
C22_PendingBatchSelection ==
    [][\A tenant \in Tenants \cup {NULL}, limit \in Limits :
         process_pending_calls(tenant, limit) =>
            /\ Len(NewlyQueued) <= limit
            /\ NewlyQueuedOnce
            /\ \A i \in DOMAIN NewlyQueued :
                  /\ NewlyQueued[i] \in CallIds
                  /\ call_records[NewlyQueued[i]].analysis_status = PENDING
                  /\ call_records[NewlyQueued[i]].audio_file_path # NoPath
                  /\ tenant # NULL => call_records[NewlyQueued[i]].tenant_id = tenant
                  /\ tasks'[Len(tasks) + i].pc = "queued"
            /\ SubSeq(tasks', 1, Len(tasks)) = tasks
            /\ call_records' = call_records]_vars

\* one call was enqueued; the limit left a second matching call out, and a
\* failed call and a call without audio were not taken
C22_Witness ==
    /\ Len(tasks) = 1
    /\ Len(call_records) = 3
    /\ call_records[tasks[1].call_record_id].analysis_status = PENDING
    /\ \E c, d \in CallIds :
          /\ c # d /\ c # tasks[1].call_record_id /\ d # tasks[1].call_record_id
          /\ call_records[c].analysis_status = PENDING
          /\ call_records[c].audio_file_path # NoPath
          /\ call_records[c].tenant_id = call_records[tasks[1].call_record_id].tenant_id
          /\ call_records[d].analysis_status = PENDING
          /\ call_records[d].audio_file_path = NoPath

\* C23: an invocation of retry_failed_analyses selects at most limit calls,
\* all FAILED with a stored audio path and of the given tenant when one is
\* given, sets exactly these to PENDING, enqueues exactly these, each once,
\* and changes nothing else of any call.
C23_RetryBatchSelection ==
    [][\A tenant \in Tenants \cup {NULL}, limit \in Limits :
         retry_failed_analyses(tenant, limit) =>
            LET sel == { NewlyQueued[i] : i \in DOMAIN NewlyQueued }
            IN  /\ Len(NewlyQueued) <= limit
                /\ NewlyQueuedOnce
                /\ sel \subseteq CallIds
                /\ \A c \in sel :
                      /\ call_records[c].analysis_status = FAILED
                      /\ call_records[c].audio_file_path # NoPath
                      /\ tenant # NULL => call_records[c].tenant_id = tenant
                /\ Len(call_records') = Len(call_records)
                /\ \A c \in CallIds :
                      call_records'[c] =
                          IF c \in sel
                          THEN [call_records[c] EXCEPT !.analysis_status = PENDING]
                          ELSE call_records[c]
                /\ SubSeq(tasks', 1, Len(tasks)) = tasks]_vars

\* one failed call was reset and enqueued; a second failed call with audio of
\* the same tenant and a failed call without audio are still FAILED
C23_Witness ==
    /\ Len(tasks) = 1
    /\ Len(call_records) = 3
    /\ call_records[tasks[1].call_record_id].analysis_status = PENDING
    /\ \E c, d \in CallIds :
          /\ c # d
          /\ call_records[c].analysis_status = FAILED
          /\ call_records[c].audio_file_path # NoPath
          /\ call_records[c].tenant_id = call_records[tasks[1].call_record_id].tenant_id
          /\ call_records[d].analysis_status = FAILED
          /\ call_records[d].audio_file_path = NoPath

\* C24: when the daily sync has enqueued a tenant's pending calls, every
\* history record it fetched for that tenant has a CallRecord of that tenant
\* with the record's request id.
C24_DailySyncUpsertsThenEnqueues ==
    \A b \in DOMAIN daily_sync.batches :
        \A f \in DOMAIN daily_sync.fetched :
            daily_sync.fetched[f].tenant_id = daily_sync.batches[b].tenant_id =>
                \A r \in DOMAIN daily_sync.fetched[f].records :
                    \E c \in CallIds :
                        /\ call_records[c].tenant_id = daily_sync.batches[b].tenant_id
                        /\ call_records[c].request_id =
                              daily_sync.fetched[f].records[r].request_id

\* C25: a reanalyze request for a call of the user's tenant with an audio
\* path answers 200, sets the call PENDING and changes nothing else; for a
\* call of the user's tenant without audio it answers 400, and for an unknown
\* call or a call of another tenant 404, and these two change nothing.
C25_ReanalyzeEffect ==
    [][\A call_id \in RequestedIds, user_tenant \in Tenants :
         ReanalyzeEndpoint(call_id, user_tenant) =>
            LET own == call_id \in CallIds
                       /\ call_records[call_id].tenant_id = user_tenant
            IN  /\ (own /\ call_records[call_id].audio_file_path # NoPath) =>
                      /\ http'.status_code = 200
                      /\ call_records' =
                            [call_records EXCEPT ![call_id].analysis_status = PENDING]
                      /\ UNCHANGED <<pipeline_vars, blobs, sync_vars>>
                /\ (own /\ call_records[call_id].audio_file_path = NoPath) =>
                      /\ http'.status_code = 400
                      /\ UNCHANGED store_vars
                /\ ~own =>
                      /\ http'.status_code = 404
                      /\ UNCHANGED store_vars]_vars

\* an accepted request: the call is PENDING and still has its AnalysisResult
\* with an emotion_data row, while a call of the other tenant is untouched
C25_Witness ==
    /\ http.status_code = 200
    /\ http.call_id \in CallIds
    /\ call_records[http.call_id].analysis_status = PENDING
    /\ \E a \in AnalysisRowsOf(analysis_results, http.call_id) :
          EmotionRowsOf(emotion_data, a) # <<>>
    /\ \E c \in CallIds :
          /\ call_records[c].tenant_id # http.tenant_id
          /\ call_records[c].analysis_status = COMPLETED

\* C26: every call that is PENDING with a stored audio path is eventually
\* COMPLETED or FAILED, with the beat and the workers running fairly.
C26_PendingEventuallyProcessed ==
    \A c \in 1..MaxCalls :
        (/\ c \in CallIds
         /\ call_records[c].analysis_status = PENDING
         /\ call_records[c].audio_file_path # NoPath)
        ~> (/\ c \in CallIds
            /\ call_records[c].analysis_status \in {COMPLETED, FAILED})

\* no update of the tenant's credentials is under way
NoUpdateInProgress(tenant_id) ==
    \A u \in DOMAIN factory.updates :
        factory.updates[u].tenant_id = tenant_id => factory.updates[u].pc = "done"

\* C27: get_client returns the cached client of the tenant while there is
\* one, and when no update of the tenant's credentials is under way a caller
\* that passes the tenant's current credentials obtains a client that
\* carries them, whatever calls interleaved with the updates before.
C27_ClientCacheFresh ==
    [][\A c \in 1..MaxGetters :
          get_client(c) =>
             LET tenant_id == factory.callers[c].tenant_id
                 obtained == factory'.callers[c].client
             IN  /\ factory.clients[tenant_id] # NoCachedClient
                       => obtained = factory.clients[tenant_id]
                 /\ (/\ NoUpdateInProgress(tenant_id)
                     /\ factory.callers[c].credentials = factory.tenant_rows[tenant_id])
                       => obtained.credentials = factory.tenant_rows[tenant_id]]_vars

\* the blobs a run that saw the bucket at its listing has to delete
DueAtListing(r) ==
    { b \in bucket.runs[r].listed :
        bucket.objects[b].has_expires_at
        /\ bucket.objects[b].expires_at < bucket.runs[r].now }

\* C28: a cleanup run that returned has deleted exactly the blobs under the
\* prefix whose expires_at was before the run's time, and no blob outside the
\* prefix, without metadata or not yet expired; it returned their number; and
\* a run that starts at the same time after a run that returned deletes
\* nothing.
C28_CleanupDeletesExactlyExpired ==
    \A r \in DOMAIN bucket.runs :
        /\ \A b \in bucket.runs[r].deleted :
              /\ bucket.objects[b].under_prefix
              /\ bucket.objects[b].has_expires_at
              /\ bucket.objects[b].expires_at < bucket.runs[r].now
              /\ ~bucket.objects[b].exists
        /\ bucket.runs[r].pc = "returned" =>
              /\ bucket.runs[r].deleted = DueAtListing(r)
              /\ bucket.runs[r].deleted_count = Cardinality(DueAtListing(r))
              /\ \A q \in DOMAIN bucket.runs :
                    (q < r /\ bucket.runs[q].pc = "returned"
                           /\ bucket.runs[q].now = bucket.runs[r].now)
                        => bucket.runs[r].deleted_count = 0
        /\ bucket.runs[r].pc # "NotFound"

\* a first run deleted an expired blob and left a blob that expires at the
\* run's time and a second run at the same time returned 0
C28_Witness ==
    /\ Len(bucket.runs) = 2
    /\ bucket.runs[1].pc = "returned" /\ bucket.runs[1].deleted_count = 1
    /\ bucket.runs[2].pc = "returned" /\ bucket.runs[2].deleted_count = 0
    /\ bucket.runs[2].now = bucket.runs[1].now
    /\ \E b \in DOMAIN bucket.objects :
          /\ bucket.objects[b].exists
          /\ bucket.objects[b].under_prefix
          /\ bucket.objects[b].has_expires_at
          /\ bucket.objects[b].expires_at = bucket.runs[1].now

\* C29: cleanup runs that overlap all complete without error, and when all
\* have ended every blob that was due in one of them is deleted.
C29_OverlappingCleanupsSafe ==
    /\ \A r \in DOMAIN bucket.runs : bucket.runs[r].pc # "NotFound"
    /\ (bucket.runs # <<>> /\ NoCleanupRunning) =>
          \A r \in DOMAIN bucket.runs :
              \A b \in DueAtListing(r) : ~bucket.objects[b].exists

\* the operator of that id is a row of the tenant, committed or added by run
OwnOperator(run, id) ==
    \/ id = NoOperator
    \/ \E o \in 1..Len(operators) :
            operators[o].id = id /\ operators[o].tenant_id = run.tenant_id
    \/ \E o \in 1..Len(run.new_operators) :
            run.new_operators[o].id = id
            /\ run.new_operators[o].tenant_id = run.tenant_id

\* what the session of a sync request holds: the rows it looked up, the rows
\* it added and the operators it resolved are all rows of its tenant
SessionOwn(run) ==
    /\ \A e \in run.loaded_calls :
            /\ call_records[e.id].tenant_id = run.tenant_id
            /\ OwnOperator(run, e.obj.operator_id)
    /\ \A j \in 1..Len(run.new_calls) :
            /\ run.new_calls[j].tenant_id = run.tenant_id
            /\ OwnOperator(run, run.new_calls[j].operator_id)
    /\ \A o \in 1..Len(run.new_operators) :
            run.new_operators[o].tenant_id = run.tenant_id
    /\ \A e \in run.operator_cache : OwnOperator(run, e.operator_id)

\* every committed call refers to no operator or to one of its own tenant
OperatorsOwn ==
    \A k \in CallIds :
        \/ call_records[k].operator_id = NoOperator
        \/ \E o \in 1..Len(operators) :
                /\ operators[o].id = call_records[k].operator_id
                /\ operators[o].tenant_id = call_records[k].tenant_id

\* the flows an execution selected are active flows of its call's tenant
FlowsOwn ==
    \A t \in TaskIds :
        \A f \in tasks[t].available_flows :
            /\ f.is_active
            /\ f.tenant_id = call_records[tasks[t].call_record_id].tenant_id

\* the commit of run s changes and adds rows of its tenant only
CommitOwn(s) ==
    LET tenant_id == syncs[s].tenant_id
    IN  /\ Len(call_records') >= Len(call_records)
        /\ Len(operators') >= Len(operators)
        /\ \A k \in 1..Len(call_records') :
              IF k <= Len(call_records)
              THEN call_records[k].tenant_id # tenant_id
                        => call_records'[k] = call_records[k]
              ELSE call_records'[k].tenant_id = tenant_id
        /\ \A o \in 1..Len(operators') :
              IF o <= Len(operators)
              THEN operators'[o] = operators[o]
              ELSE operators'[o].tenant_id = tenant_id

PositiveSum == SumScores(sentiment.average_emotions, positive_emotions)
NegativeSum == SumScores(sentiment.average_emotions, negative_emotions)

\* C31: calculate_sentiment_score returns (P - N) / (P + N) for the sums P
\* and N of the average scores of the positive and the negative emotions; the
\* value lies in [-1, 1], is 0 when P = N, and is 0 with no division when
\* P + N = 0.
C31_SentimentScore ==
    sentiment.pc = "done" =>
        /\ sentiment.outcome = "returned"
        /\ sentiment.den > 0
        /\ -sentiment.den <= sentiment.num /\ sentiment.num <= sentiment.den
        /\ PositiveSum + NegativeSum # 0 =>
              /\ sentiment.divided
              /\ sentiment.num * (PositiveSum + NegativeSum)
                    = (PositiveSum - NegativeSum) * sentiment.den
        /\ PositiveSum = NegativeSum => sentiment.num = 0
        /\ PositiveSum + NegativeSum = 0 =>
              sentiment.num = 0 /\ ~sentiment.divided

\* a call over a dictionary whose scores are all 0, with a key of neither list
C31_Witness ==
    /\ sentiment.pc = "done"
    /\ DOMAIN sentiment.average_emotions = EmotionKeys
    /\ PositiveSum + NegativeSum = 0
    /\ ~sentiment.divided

\* the page the next pass of the loop receives
NextPage ==
    get_call_history(pager.data, pager.current_start, end_date, page_size)

\* C32: get_call_history_paginated terminates. A pass that finds the query
\* start at the end of the range, or receives an empty or a short page, is
\* the last one; every other pass moves the query start strictly forward;
\* and every call returns or raises.
C32_PaginationTerminates ==
    /\ [][pager.pc = "loop" =>
            IF \/ ~(pager.current_start < end_date)
               \/ Len(NextPage) < page_size
            THEN pager'.pc # "loop"
            ELSE pager'.pc = "loop" =>
                    /\ pager'.current_start > pager.current_start
                    /\ pager'.current_start <= end_date]_vars
    /\ <>(pager.pc \in {"done", "raised"})

\* a call that returned after two full pages and a short one
C32_Witness ==
    /\ pager.pc = "done"
    /\ Len(pager.all_records) > 2 * page_size
    /\ pager.current_start > start_date
    /\ pager.current_start < end_date

\* the fetched records of run that name the call of row
RecordsOf(run, row) ==
    { i \in 1..Len(run.history_records) :
        /\ run.tenant_id = row.tenant_id
        /\ run.history_records[i].request_id = row.request_id }

\* C33: a sync that finds a record's CallRecord changes, of that row, only
\* the operator linkage (and the update timestamp, which the model leaves
\* out) and sets the audio path when none is stored and the record has a
\* recording; the status, a stored audio path and the rows of
\* analysis_results and emotion_data stay as they are.
C33_ResyncFrame ==
    [][\A s \in 1..MaxSyncs :
        (s \in SyncIds /\ (SyncRecord(s) \/ SyncCommit(s))) =>
            /\ UNCHANGED <<analysis_results, emotion_data>>
            /\ \A k \in CallIds :
                LET old == call_records[k]
                    new == call_records'[k]
                IN  /\ new = [old EXCEPT
                                !.operator_id = new.operator_id,
                                !.audio_file_path = new.audio_file_path]
                    /\ new # old => RecordsOf(syncs[s], old) # {}
                    /\ old.audio_file_path # NoPath
                          => new.audio_file_path = old.audio_file_path
                    /\ new.audio_file_path # old.audio_file_path
                          => \E i \in RecordsOf(syncs[s], old) :
                                syncs[s].history_records[i].has_recording]_vars

\* the fetched records flagged with a recording
Flagged(history) == { i \in 1..Len(history) : history[i].has_recording }

\* C34: the response of a sync agrees with what happened. total_records is
\* the number of fetched records; every pass of the loop counts its record
\* either as new, or as updated, or as a failed record (one error, no count),
\* and a failed recording adds an error to a counted record; at most one
\* recording is counted per flagged record; at most 20 errors are returned.
C34_ResponseConsistent ==
    /\ [](\A s \in SyncIds :
            LET run == syncs[s]
                response == BiztelSyncResponse(run)
            IN  /\ response.total_records \in {0, Len(provider)}
                /\ run.pc \in {"records", "commit"} =>
                        response.total_records = Len(run.history_records)
                /\ run.committed => response.total_records = Len(provider)
                /\ response.new_records + response.updated_records
                        <= response.total_records
                /\ run.pc \in {"records", "commit"} =>
                        /\ response.new_records + response.updated_records
                                <= run.i - 1
                        /\ response.new_records + response.updated_records
                                + run.errors >= run.i - 1
                /\ response.recordings_downloaded
                        <= Cardinality(Flagged(provider))
                /\ response.errors <= error_limit
                /\ response.errors <= run.errors)
    /\ [][\A s \in 1..MaxSyncs :
            (s \in SyncIds /\ SyncRecord(s)) =>
                LET old == syncs[s]
                    new == syncs'[s]
                    record == old.history_records[old.i]
                    counted == (new.new_records - old.new_records)
                                + (new.updated_records - old.updated_records)
                    failed == new.errors - old.errors
                    stored == new.recordings_downloaded - old.recordings_downloaded
                IN  /\ new.new_records >= old.new_records
                    /\ new.updated_records >= old.updated_records
                    /\ counted \in {0, 1}
                    /\ counted = 0 => failed = 1 /\ stored = 0
                    /\ counted = 1 =>
                          /\ failed = (IF new.recording = "failed" THEN 1 ELSE 0)
                          /\ stored \in {0, 1}
                          /\ stored = 1 => record.has_recording /\ failed = 0
                          /\ failed = 1 => record.has_recording]_vars

\* a request that met more failures than the response may list
C34_Witness ==
    \E s \in SyncIds :
        /\ syncs[s].committed
        /\ syncs[s].errors > error_limit
        /\ syncs[s].new_records = 1
        /\ syncs[s].updated_records = Len(provider) - 1
        /\ syncs[s].recordings_downloaded = 0

\* C35: no two operators of one tenant share a provider operator id, whatever
\* records repeat within a sync and however often the tenant syncs.
C35_OperatorUniquePerTenant ==
    \A o, q \in 1..Len(operators) :
        (/\ operators[o].tenant_id = operators[q].tenant_id
         /\ operators[o].biztel_operator_id = operators[q].biztel_operator_id)
            => o = q

\* an execution of process_single_call is running: a worker took the message
\* and the task has neither returned nor raised
InFlight(t) == tasks[t].pc \notin {"queued", "done"}

\* C36: no two executions of process_single_call for the same call are in
\* flight at the same time.
C36_OneExecutionPerCall ==
    \A t, u \in TaskIds :
        (/\ InFlight(t) /\ InFlight(u)
         /\ tasks[t].call_record_id = tasks[u].call_record_id)
            => t = u

\* the analysis_results rows of call k
ResultsOf(k) ==
    { i \in 1..Len(analysis_results) : analysis_results[i].call_record_id = k }

\* C37: a call in status COMPLETED has an AnalysisResult: the row and the
\* status are committed together, and no step removes a row of
\* analysis_results or gives it to another call.
C37_CompletedHasResult ==
    /\ [](\A k \in CallIds :
            call_records[k].analysis_status = COMPLETED => ResultsOf(k) # {})
    /\ [][/\ Len(analysis_results') >= Len(analysis_results)
          /\ \A i \in 1..Len(analysis_results) :
                analysis_results'[i].call_record_id
                    = analysis_results[i].call_record_id]_vars

\* a call analysed twice: reset by the reanalyze endpoint after a first
\* completed run, completed again by a second run over the stored result
C37_Witness ==
    \E k \in CallIds :
        /\ call_records[k].analysis_status = COMPLETED
        /\ Cardinality(ResultsOf(k)) = 1
        /\ \E t, u \in TaskIds :
              /\ t # u
              /\ tasks[t].call_record_id = k /\ tasks[u].call_record_id = k
              /\ tasks[t].result = "completed" /\ tasks[u].result = "completed"

\* C38: an execution that does not complete persists nothing but the status
\* of its call: each of its steps, the failure handler's commit included,
\* leaves the call's flow id and inquiry category, every other call and the
\* rows of analysis_results and emotion_data as they were, and the handler
\* of an exception commits FAILED whenever its session can still commit.
C38_FailedRunFrame ==
    [][\A t \in 1..MaxTasks :
        (t \in TaskIds /\ PipelineStep(t) /\ tasks'[t].result # "completed") =>
            LET id == tasks[t].call_record_id
            IN  /\ UNCHANGED <<analysis_results, emotion_data>>
                /\ \A k \in CallIds :
                      call_records'[k] =
                        IF k = id
                        THEN [call_records[k] EXCEPT
                                !.analysis_status = call_records'[k].analysis_status]
                        ELSE call_records[k]
                /\ (tasks[t].pc = "except" /\ ~tasks[t].invalid) =>
                      call_records'[id].analysis_status = FAILED]_vars

\* a call analysed before, with its flow, category and result stored, whose
\* later execution raised after another execution had stored the result:
\* the call is FAILED and the stored analysis is still there
C38_Witness ==
    \E t \in TaskIds :
        LET id == tasks[t].call_record_id
        IN  /\ tasks[t].result = "failed"
            /\ call_records[id].analysis_status = FAILED
            /\ call_records[id].operation_flow_id # NULL
            /\ call_records[id].inquiry_category # NULL
            /\ ResultsOf(id) # {}
            /\ emotion_data # <<>>

\* C39: the flow id stored on a call is the id of an active flow of the
\* call's own tenant, whatever the classification answered.
C39_StoredFlowIsOwnActiveFlow ==
    \A k \in CallIds :
        call_records[k].operation_flow_id # NULL =>
            \E f \in AvailableFlows(call_records[k].tenant_id) :
                f.id = call_records[k].operation_flow_id

\* C40: the audio path of a call names a blob that exists in the bucket, also
\* after cleanup_expired_files has run.
C40_AudioPathNamesExistingBlob ==
    \A k \in CallIds :
        call_records[k].audio_file_path # NoPath =>
            /\ call_records[k].audio_file_path \in DOMAIN bucket.objects
            /\ bucket.objects[call_records[k].audio_file_path].exists
====
